---------------------------- MODULE Spec2Model ----------------------------
(***************************************************************************)
(* A model of the abedl downloader core: the playlist index selector of    *)
(* YouTubeDownloader (abedl/youtube.py) and the downloader registry        *)
(* (abedl/registry.py) with the handler constructors it runs               *)
(* (abedl/base.py, abedl/youtube.py, abedl/cbn.py, abedl/keysforkids.py).  *)
(*                                                                         *)
(* Python strings are sequences of one-character strings.  An Optional     *)
(* value is a sequence of length 0 (None) or 1 (the value).                *)
(***************************************************************************)
EXTENDS Integers, Sequences, FiniteSets, TLC

VARIABLES
    options,      \* the DownloadOptions of the downloader under test
    videos,       \* the playlist entries handed to _filter_playlist_by_range
    downloaders,  \* DownloaderRegistry._downloaders, an insertion-ordered dict
    disk,         \* the directories that exist on disk
    regOrder,     \* history: registered names, least recently registered first
    web,          \* what the network serves: keysforkids.org, yt-dlp's sites
    fetched,      \* history: the requests made to the network, oldest first
    ret           \* the last call made: its name, arguments and outcome

vars == <<options, videos, downloaders, disk, regOrder, web, fetched, ret>>

(***************************************************************************)
(* Bounds of the model.                                                    *)
(***************************************************************************)
MaxLen == 5        \* longest selection expression parsed on its own
MaxDigits == 2     \* longest run of digits in a selection expression
FilterLen == 3     \* longest selection expression given to the filter
MaxN == 2          \* longest playlist
TextLen == 4       \* most pieces in the page the date query answers with
MaxPage == 12      \* highest archive page that may stand out
MaxDays == 3       \* days the site has devotionals for

None == <<>>
Some(v) == <<v>>

Digits == {"0", "1", "2", "3", "4", "5", "6", "7", "8", "9"}
Whitespace == {" "}

\* The characters selection expressions are drawn from: for the parser on its
\* own, and for the filter.
Alphabet == {"1", "2", ",", "-", "x", " "}
FilterAlphabet == {"1", "2", ",", "-", "x"}

(***************************************************************************)
(* Python built-ins on strings and lists.                                  *)
(***************************************************************************)
DigitValue(c) ==
    CASE c = "0" -> 0 [] c = "1" -> 1 [] c = "2" -> 2 [] c = "3" -> 3
      [] c = "4" -> 4 [] c = "5" -> 5 [] c = "6" -> 6 [] c = "7" -> 7
      [] c = "8" -> 8 [] c = "9" -> 9

RECURSIVE DecimalValue(_)
DecimalValue(s) ==
    IF s = <<>> THEN 0
    ELSE 10 * DecimalValue(SubSeq(s, 1, Len(s) - 1)) + DigitValue(s[Len(s)])

\* str.strip(): drop leading and trailing whitespace.
RECURSIVE PyStrip(_)
PyStrip(s) ==
    IF s = <<>> THEN s
    ELSE IF Head(s) \in Whitespace THEN PyStrip(Tail(s))
    ELSE IF s[Len(s)] \in Whitespace THEN PyStrip(SubSeq(s, 1, Len(s) - 1))
    ELSE s

\* str.split(sep) for a one-character separator: always at least one piece.
RECURSIVE PySplit(_, _)
PySplit(s, sep) ==
    IF \A i \in 1..Len(s) : s[i] # sep THEN <<s>>
    ELSE LET i == CHOOSE k \in 1..Len(s) :
                      s[k] = sep /\ \A j \in 1..(k - 1) : s[j] # sep
         IN  <<SubSeq(s, 1, i - 1)>> \o PySplit(SubSeq(s, i + 1, Len(s)), sep)

\* int(s): surrounding whitespace and one sign are accepted, then one or more
\* decimal digits; anything else raises ValueError.
PyInt(s) ==
    LET t == PyStrip(s)
        signed == t # <<>> /\ Head(t) \in {"+", "-"}
        body == IF signed THEN Tail(t) ELSE t
        ok == body # <<>> /\ \A i \in 1..Len(body) : body[i] \in Digits
    IN  IF ~ok THEN [raised |-> TRUE, value |-> 0]
        ELSE [raised |-> FALSE,
              value |-> IF signed /\ Head(t) = "-" THEN 0 - DecimalValue(body)
                        ELSE DecimalValue(body)]

\* list(range(lo, hi)).
PyRange(lo, hi) == [i \in 1..(hi - lo) |-> lo + i - 1]

SeqRange(s) == {s[i] : i \in 1..Len(s)}

\* Mutant: the list as collected, neither sorted nor deduplicated.
SortedSetUnsorted(xs) == xs

\* sorted(set(xs)) for a list of integers.
SortedSet(xs) ==
    LET S == SeqRange(xs)
    IN  IF S = {} THEN <<>>
        ELSE LET lo == CHOOSE x \in S : \A y \in S : x <= y
                 hi == CHOOSE x \in S : \A y \in S : y <= x
             IN  SelectSeq([i \in 1..(hi - lo + 1) |-> lo + i - 1],
                           LAMBDA x : x \in S)


(***************************************************************************)
(* YouTubeDownloader._parse_playlist_items (youtube.py:193-215).           *)
(***************************************************************************)

\* Mutant: range(start, end), which leaves the upper end out.
RangeTryBodyExclusive(part) ==
    LET pieces == PySplit(part, "-")
    IN  IF Len(pieces) # 2 THEN [raised |-> TRUE, items |-> <<>>]
        ELSE LET start == PyInt(pieces[1])
                 end == PyInt(pieces[2])
             IN  IF start.raised \/ end.raised
                 THEN [raised |-> TRUE, items |-> <<>>]
                 ELSE [raised |-> FALSE,
                       items |-> PyRange(start.value, end.value)]

\* The body of the range branch's try block:
\*     start, end = map(int, part.split('-'))
\*     indices.extend(range(start, end + 1))
\* Unpacking anything but two pieces raises ValueError, as does int().
RangeTryBody(part) ==
    LET pieces == PySplit(part, "-")
    IN  IF Len(pieces) # 2 THEN [raised |-> TRUE, items |-> <<>>]
        ELSE LET start == PyInt(pieces[1])
                 end == PyInt(pieces[2])
             IN  IF start.raised \/ end.raised
                 THEN [raised |-> TRUE, items |-> <<>>]
                 ELSE [raised |-> FALSE,
                       items |-> PyRange(start.value, end.value + 1)]

\* The body of the single-number branch's try block:
\*     indices.append(int(part))
NumberTryBody(part) ==
    LET n == PyInt(part)
    IN  IF n.raised THEN [raised |-> TRUE, items |-> <<>>]
        ELSE [raised |-> FALSE, items |-> <<n.value>>]

\* Mutant: no except clause, the ValueError escapes.
ExceptNothing(body) == body

\* except ValueError: print a warning and go on with the next part.
ExceptValueError(body) ==
    IF body.raised THEN [raised |-> FALSE, items |-> <<>>] ELSE body

\* One iteration of the loop over playlist_items.split(',').
ParsePart(rawPart) ==
    LET part == PyStrip(rawPart)
    IN  IF "-" \in SeqRange(part)
        THEN ExceptValueError(RangeTryBody(part))
        ELSE ExceptValueError(NumberTryBody(part))

\* The loop: indices grows part by part; an exception that escapes a part
\* ends the loop and the call.
RECURSIVE ParseLoop(_, _)
ParseLoop(parts, indices) ==
    IF parts = <<>> THEN [raised |-> FALSE, items |-> indices]
    ELSE LET r == ParsePart(Head(parts))
         IN  IF r.raised THEN [raised |-> TRUE, items |-> indices]
             ELSE ParseLoop(Tail(parts), indices \o r.items)

\* The outcome of a call: [kind |-> "return", value |-> v] or
\* [kind |-> "raise", error |-> e].
Return(v) == [kind |-> "return", value |-> v]
Raise(e) == [kind |-> "raise", error |-> e]

\* An assignment and the statements after it: `value` is computed once, and
\* Then(value) is what the statements make of it.
Bind(value, Then(_)) == CHOOSE result \in {Then(v) : v \in {value}} : TRUE

_parse_playlist_items(playlist_items) ==
    IF playlist_items = <<>> THEN Return(<<>>)
    ELSE LET loop == ParseLoop(PySplit(playlist_items, ","), <<>>)
         IN  IF loop.raised THEN Raise("ValueError")
             ELSE Return(SortedSet(loop.items))

(***************************************************************************)
(* YouTubeDownloader._filter_playlist_by_range (youtube.py:217-246).       *)
(* opts carries playlist_items, playlist_start and playlist_end.           *)
(***************************************************************************)
Max2(a, b) == IF a >= b THEN a ELSE b
Min2(a, b) == IF a <= b THEN a ELSE b

\* Python truthiness of an Optional[str] and of an Optional[int].
TruthyStr(opt) == opt # None /\ opt[1] # <<>>
TruthyInt(opt) == opt # None /\ opt[1] # 0

\* Mutant: an index out of range aborts the whole selection.
SelectByIndicesAbort(vids, indices) ==
    IF \E k \in 1..Len(indices) : ~(1 <= indices[k] /\ indices[k] <= Len(vids))
    THEN <<>>
    ELSE [k \in 1..Len(indices) |-> vids[indices[k]]]

\* Mutant: an index out of range is moved to the nearest end of the playlist.
RECURSIVE SelectByIndicesClamp(_, _)
SelectByIndicesClamp(vids, indices) ==
    IF indices = <<>> THEN <<>>
    ELSE LET i == Head(indices)
         IN  <<vids[IF i < 1 THEN 1 ELSE IF i > Len(vids) THEN Len(vids) ELSE i]>>
             \o SelectByIndicesClamp(vids, Tail(indices))

\* The loop over the parsed indices (youtube.py:226-232).
RECURSIVE SelectByIndices(_, _)
SelectByIndices(vids, indices) ==
    IF indices = <<>> THEN <<>>
    ELSE LET i == Head(indices)
         IN  (IF 1 <= i /\ i <= Len(vids) THEN <<vids[i]>> ELSE <<>>)
             \o SelectByIndices(vids, Tail(indices))

\* videos[start:end] for 0 <= start, 0 <= end <= len(videos).
PySlice(vids, start, end) == SubSeq(vids, start + 1, end)

\* Mutant: the start is not converted to a 0-based offset.
FilterByWindowOneBased(vids, opts) ==
    LET start == Max2(1, opts.playlist_start)
        end == Min2(Len(vids),
                    IF TruthyInt(opts.playlist_end) THEN opts.playlist_end[1]
                    ELSE Len(vids))
    IN  IF start >= Len(vids) THEN <<>>
        ELSE IF start >= end THEN <<>>
        ELSE PySlice(vids, start, end)

\* Mutant: an end of 0 is taken as given, not as "no end".
FilterByWindowZeroEnd(vids, opts) ==
    LET start == Max2(1, opts.playlist_start) - 1
        end == Min2(Len(vids),
                    IF opts.playlist_end # None THEN opts.playlist_end[1]
                    ELSE Len(vids))
    IN  IF start >= Len(vids) THEN <<>>
        ELSE IF start >= end THEN <<>>
        ELSE PySlice(vids, start, end)

\* The start/end window (youtube.py:234-246).
FilterByWindow(vids, opts) ==
    LET start == Max2(1, opts.playlist_start) - 1
        end == Min2(Len(vids),
                    IF TruthyInt(opts.playlist_end) THEN opts.playlist_end[1]
                    ELSE Len(vids))
    IN  IF start >= Len(vids) THEN <<>>
        ELSE IF start >= end THEN <<>>
        ELSE PySlice(vids, start, end)

\* Mutant: an expression without any index selects nothing.
FilterWithoutFallback(vids, opts) ==
    IF vids = <<>> THEN Return(vids)
    ELSE IF TruthyStr(opts.playlist_items)
    THEN LET parsed == _parse_playlist_items(opts.playlist_items[1])
         IN  IF parsed.kind = "raise" THEN parsed
             ELSE Return(SelectByIndices(vids, parsed.value))
    ELSE Return(FilterByWindow(vids, opts))

\* Mutant: an expression that selects no entry falls back to the window.
FilterFallbackWhenNothingSelected(vids, opts) ==
    IF vids = <<>> THEN Return(vids)
    ELSE IF TruthyStr(opts.playlist_items)
    THEN LET parsed == _parse_playlist_items(opts.playlist_items[1])
         IN  IF parsed.kind = "raise" THEN parsed
             ELSE IF SelectByIndices(vids, parsed.value) # <<>>
             THEN Return(SelectByIndices(vids, parsed.value))
             ELSE Return(FilterByWindow(vids, opts))
    ELSE Return(FilterByWindow(vids, opts))

_filter_playlist_by_range(vids, opts) ==
    IF vids = <<>> THEN Return(vids)
    ELSE IF TruthyStr(opts.playlist_items)
    THEN LET parsed == _parse_playlist_items(opts.playlist_items[1])
         IN  IF parsed.kind = "raise" THEN parsed
             ELSE IF parsed.value # <<>>
             THEN Return(SelectByIndices(vids, parsed.value))
             ELSE Return(FilterByWindow(vids, opts))
    ELSE Return(FilterByWindow(vids, opts))

(***************************************************************************)
(* DownloadOptions (base.py:39-55), the fields the model reads.            *)
(***************************************************************************)
DefaultOptions ==
    [output_dir |-> "./downloads", quality |-> <<"b", "e", "s", "t">>,
     audio_only |-> FALSE, playlist_start |-> 1, playlist_end |-> None,
     playlist_items |-> None, audio_format |-> None]

\* The strings over alphabet of length at most n whose numbers have at most
\* MaxDigits digits.
Exprs(alphabet, n) ==
    {s \in UNION {[1..k -> alphabet] : k \in 0..n} :
        \A i \in 1..(Len(s) - MaxDigits) :
            \E j \in i..(i + MaxDigits) : s[j] \notin Digits}

\* A playlist of n entries: the entry at position i is <<"video", i>>.
MockVideos(n) == [i \in 1..n |-> <<"video", i>>]

Idle == [op |-> "none"]

\* The network of a specification that makes no request.
NoWeb == [site |-> "none"]

\* The expressions of test_playlist_items_parsing: "1,3,5", "1-3",
\* "1,3,5-7,10", "5-8,1,3", "" and "1,invalid,3".
TestExpressions ==
    {<<"1", ",", "3", ",", "5">>,
     <<"1", "-", "3">>,
     <<"1", ",", "3", ",", "5", "-", "7", ",", "1", "0">>,
     <<"5", "-", "8", ",", "1", ",", "3">>,
     <<>>,
     <<"1", ",", "i", "n", "v", "a", "l", "i", "d", ",", "3">>}

\* The cases of test_playlist_filtering, over its ten mock videos.
TestPlaylistLength == 10
TestFilterOptions ==
    {[DefaultOptions EXCEPT !.playlist_start = 3, !.playlist_end = Some(6)],
     [DefaultOptions EXCEPT !.playlist_items = Some(<<"1", ",", "3", ",", "5">>)],
     [DefaultOptions EXCEPT !.playlist_items =
          Some(<<"1", "-", "3", ",", "8", "-", "1", "0">>)],
     [DefaultOptions EXCEPT !.playlist_start = 5, !.playlist_end = Some(8)]}

(***************************************************************************)
(* SpecParse: one call of _parse_playlist_items on any expression.         *)
(***************************************************************************)
InitParse ==
    /\ options \in {[DefaultOptions EXCEPT !.playlist_items = Some(e)] :
                       e \in Exprs(Alphabet, MaxLen) \cup TestExpressions}
    /\ videos = <<>>
    /\ downloaders = <<>>
    /\ disk = {}
    /\ regOrder = <<>>
    /\ web = NoWeb
    /\ fetched = <<>>
    /\ ret = Idle

ParsePlaylistItems ==
    /\ ret = Idle
    /\ ret' = [op |-> "_parse_playlist_items",
               outcome |-> _parse_playlist_items(options.playlist_items[1])]
    /\ UNCHANGED <<options, videos, downloaders, disk, regOrder, web,
                 fetched>>

NextParse == ParsePlaylistItems

SpecParse == InitParse /\ [][NextParse]_vars

(***************************************************************************)
(* SpecFilter: one call of _filter_playlist_by_range on any playlist, with *)
(* any expression and any window.                                          *)
(***************************************************************************)
StartValues == (-1)..(MaxN + 1)
EndValues == {None} \cup {Some(n) : n \in (-1)..(MaxN + 1)}
\* Expressions with blanks and with indices beside those of FilterAlphabet.
FilterExpressions ==
    {<<" ">>, <<" ", ",", " ">>, <<" ", "x", " ">>, <<"0">>, <<"0", ",", "3">>,
     <<"3", "-", "4">>, <<" ", "2", " ">>}
ItemsValues ==
    {None} \cup {Some(e) : e \in Exprs(FilterAlphabet, FilterLen)
                                    \cup FilterExpressions}

InitFilter ==
    /\ \/ /\ options \in {[DefaultOptions EXCEPT !.playlist_items = items,
                                                 !.playlist_start = start,
                                                 !.playlist_end = end] :
                             items \in ItemsValues, start \in StartValues,
                             end \in EndValues}
          /\ videos \in {MockVideos(n) : n \in 0..MaxN}
       \/ /\ options \in TestFilterOptions
          /\ videos = MockVideos(TestPlaylistLength)
    /\ downloaders = <<>>
    /\ disk = {}
    /\ regOrder = <<>>
    /\ web = NoWeb
    /\ fetched = <<>>
    /\ ret = Idle

FilterPlaylistByRange ==
    /\ ret = Idle
    /\ ret' = [op |-> "_filter_playlist_by_range",
               outcome |-> _filter_playlist_by_range(videos, options)]
    /\ UNCHANGED <<options, videos, downloaders, disk, regOrder, web,
                 fetched>>

NextFilter == FilterPlaylistByRange

SpecFilter == InitFilter /\ [][NextFilter]_vars

(***************************************************************************)
(* The handler classes and their constructors.                             *)
(***************************************************************************)
Classes == {"YouTubeDownloader", "CBNDownloader", "KeysForKidsDownloader"}

\* The URLs given to the registry: one per platform, and one of no platform.
YouTubeUrl == "https://www.youtube.com/watch?v=abc"
CBNUrl == "https://cbn.com/video/test"
KeysForKidsUrl == "https://www.keysforkids.org/devotional"
OtherUrl == "https://vimeo.com/1"
Urls == {YouTubeUrl, CBNUrl, KeysForKidsUrl, OtherUrl}

\* can_handle of each class: YOUTUBE_PATTERNS and CBN_PATTERNS matched at the
\* start of the URL, 'keysforkids.org' looked for in the URL's host.
can_handle(cls, url) ==
    CASE cls = "YouTubeDownloader" ->
             url \in {YouTubeUrl, "https://www.youtube.com/playlist?list=PL1"}
      [] cls = "CBNDownloader" -> url = CBNUrl
      [] cls = "KeysForKidsDownloader" -> url = KeysForKidsUrl

\* The quality strings given in DownloadOptions.
Best == <<"b", "e", "s", "t">>
Worst == <<"w", "o", "r", "s", "t">>
Qualities == {Best, <<"7", "2", "0", "p">>, <<"4", "k">>}

\* str.replace(old, "") for a one-character old.
PyRemoveChar(s, old) == SelectSeq(s, LAMBDA c : c # old)

\* _get_format_string of YouTubeDownloader and of CBNDownloader: TRUE when it
\* raises ValueError, which int(height) does for a quality that is no number
\* once its "p" are taken out.
GetFormatStringRaises(opts) ==
    IF opts.audio_only THEN FALSE
    ELSE IF opts.quality = Best THEN FALSE
    ELSE IF opts.quality = Worst THEN FALSE
    ELSE PyInt(PyRemoveChar(opts.quality, "p")).raised

\* str(Path(path)): a leading "./" is dropped.
PyPath(path) == IF path = "./downloads" THEN "downloads" ELSE path

\* BaseDownloader.__init__: _ensure_output_dir creates the output directory,
\* Path(self.options.output_dir).mkdir(parents=True, exist_ok=True).
BaseInit(opts, dsk) == dsk \cup {PyPath(opts.output_dir)}

\* cls(options): the directories on disk afterwards, and the exception the
\* constructor raised, if any.  KeysForKidsDownloader runs the base
\* constructor alone; the other two go on to _setup_ydl_opts.
Construct(cls, opts, dsk) ==
    IF cls \in {"YouTubeDownloader", "CBNDownloader"}
          /\ GetFormatStringRaises(opts)
    THEN [raised |-> TRUE, error |-> "ValueError", disk |-> BaseInit(opts, dsk)]
    ELSE [raised |-> FALSE, error |-> "", disk |-> BaseInit(opts, dsk)]

(***************************************************************************)
(* DownloaderRegistry (registry.py:24-69).  _downloaders is a dict, which  *)
(* keeps its keys in insertion order: a sequence of [name, cls] entries.   *)
(***************************************************************************)
Names == {"youtube", "cbn", "custom"}

HasKey(d, name) == \E i \in 1..Len(d) : d[i].name = name

\* d[name] for a key of d.
Lookup(d, name) == d[CHOOSE i \in 1..Len(d) : d[i].name = name].cls

\* Mutant: a name registered again moves to the end.
registerMoveToEnd(d, name, cls) ==
    Append(SelectSeq(d, LAMBDA e : e.name # name), [name |-> name, cls |-> cls])

\* Mutant: the registration is appended even when the name is registered.
registerAppend(d, name, cls) == Append(d, [name |-> name, cls |-> cls])

\* register: self._downloaders[name] = downloader_class.  A new key goes to
\* the end; a key already there keeps its place and gets the new value.
register(d, name, cls) ==
    IF HasKey(d, name)
    THEN [i \in 1..Len(d) |->
             IF d[i].name = name THEN [name |-> name, cls |-> cls] ELSE d[i]]
    ELSE Append(d, [name |-> name, cls |-> cls])

\* unregister: if name in self._downloaders: del self._downloaders[name].
unregister(d, name) ==
    IF HasKey(d, name) THEN SelectSeq(d, LAMBDA e : e.name # name) ELSE d

\* get_downloader_for_url: the loop over self._downloaders.items(), run on
\* the entries still to visit.  Each class is constructed, then asked; an
\* exception of a constructor ends the call.  `name` is the key under which
\* the returned instance's class was found.
RECURSIVE get_downloader_for_url(_, _, _, _)
get_downloader_for_url(entries, url, opts, dsk) ==
    IF entries = <<>>
    THEN [outcome |-> Raise("DownloadError"), name |-> "", disk |-> dsk]
    ELSE LET made == Construct(Head(entries).cls, opts, dsk)
         IN  IF made.raised
             THEN [outcome |-> Raise(made.error), name |-> "",
                   disk |-> made.disk]
             ELSE IF can_handle(Head(entries).cls, url)
             THEN [outcome |-> Return([cls |-> Head(entries).cls,
                                       options |-> opts]),
                   name |-> Head(entries).name, disk |-> made.disk]
             ELSE get_downloader_for_url(Tail(entries), url, opts, made.disk)

\* list_downloaders: list(self._downloaders.keys()).
list_downloaders(d) == [i \in 1..Len(d) |-> d[i].name]

\* The example URLs get_supported_platforms gives for a name; name.lower()
\* leaves each of Names as it is.
ExampleUrls(name) ==
    CASE name = "youtube" ->
             <<"https://www.youtube.com/watch?v=VIDEO_ID",
               "https://www.youtube.com/playlist?list=PLAYLIST_ID",
               "https://youtu.be/VIDEO_ID">>
      [] name = "cbn" ->
             <<"https://cbn.com/video/flying-house-episode-1",
               "https://cbn.com/video/flying-house-episode-number">>
      [] OTHER -> <<"Platform-specific URLs">>

\* get_supported_platforms: the loop over self._downloaders.items(), run on
\* the entries still to visit.  Each class is constructed with
\* DownloadOptions() as temp_downloader, then platforms[name] is set.
RECURSIVE get_supported_platforms(_, _, _)
get_supported_platforms(entries, platforms, dsk) ==
    IF entries = <<>>
    THEN [outcome |-> Return(platforms), disk |-> dsk]
    ELSE LET made == Construct(Head(entries).cls, DefaultOptions, dsk)
         IN  IF made.raised
             THEN [outcome |-> Raise(made.error), disk |-> made.disk]
             ELSE get_supported_platforms(
                      Tail(entries),
                      Append(platforms,
                             [name |-> Head(entries).name,
                              examples |-> ExampleUrls(Head(entries).name)]),
                      made.disk)

(***************************************************************************)
(* Spec: the registry under any sequence of register, unregister and       *)
(* get_downloader_for_url calls.  It starts as DownloaderRegistry()        *)
(* leaves it, empty.                                                       *)
(***************************************************************************)
RegistryOptions ==
    {[DefaultOptions EXCEPT !.quality = q, !.audio_only = a] :
        q \in Qualities, a \in BOOLEAN}

Init ==
    /\ options = DefaultOptions
    /\ videos = <<>>
    /\ downloaders = <<>>
    /\ disk = {}
    /\ regOrder = <<>>
    /\ web = NoWeb
    /\ fetched = <<>>
    /\ ret = Idle

Register ==
    \E name \in Names, cls \in Classes :
        /\ downloaders' = register(downloaders, name, cls)
        /\ regOrder' = Append(SelectSeq(regOrder, LAMBDA n : n # name), name)
        /\ ret' = [op |-> "register", name |-> name, cls |-> cls,
                   outcome |-> Return(None)]
        /\ UNCHANGED <<options, videos, disk, web, fetched>>

Unregister ==
    \E name \in Names :
        /\ downloaders' = unregister(downloaders, name)
        /\ regOrder' = SelectSeq(regOrder, LAMBDA n : n # name)
        /\ ret' = [op |-> "unregister", name |-> name,
                   outcome |-> Return(None)]
        /\ UNCHANGED <<options, videos, disk, web, fetched>>

GetDownloaderForUrl ==
    \E url \in Urls, opts \in RegistryOptions :
        LET got == get_downloader_for_url(downloaders, url, opts, disk)
        IN  /\ disk' = got.disk
            /\ ret' = [op |-> "get_downloader_for_url", url |-> url,
                       options |-> opts, outcome |-> got.outcome,
                       name |-> got.name]
            /\ UNCHANGED <<options, videos, downloaders, regOrder, web,
                        fetched>>

ListDownloaders ==
    /\ ret' = [op |-> "list_downloaders",
               outcome |-> Return(list_downloaders(downloaders))]
    /\ UNCHANGED <<options, videos, downloaders, disk, regOrder, web,
                 fetched>>

GetSupportedPlatforms ==
    LET got == get_supported_platforms(downloaders, <<>>, disk)
    IN  /\ disk' = got.disk
        /\ ret' = [op |-> "get_supported_platforms", outcome |-> got.outcome]
        /\ UNCHANGED <<options, videos, downloaders, regOrder, web,
                        fetched>>

Next ==
    \/ Register
    \/ Unregister
    \/ GetDownloaderForUrl
    \/ ListDownloaders
    \/ GetSupportedPlatforms

Spec == Init /\ [][Next]_vars

(***************************************************************************)
(* The Keys for Kids archive (keysforkids.py:206-313).  A page's text is a *)
(* sequence of pieces: the date literal looked for (date_pattern), a link  *)
(* to a detail page (a match of the href pattern), or a stretch of other   *)
(* text.  A piece's length in characters places it in the text.            *)
(***************************************************************************)
ContextWindow == 1000    \* response.text[idx:idx+1000]
EntriesPerPage == 10     \* days_ago // 10
Radius == 5              \* for offset in range(1, 6)
DefaultMaxPages == 324   \* max_pages: int = 324

\* date.strftime('%B %-d, %Y') of a date, dates being day numbers; a stretch
\* of other text; the link to detail page n, n telling where the link stands.
DateLiteral(date) == [kind |-> "date", id |-> date]
Fill == [kind |-> "fill", id |-> 0]
Link(n) == [kind |-> "link", id |-> n]

\* Characters in a piece: "November 4, 2026"; href="https://...slug/"; a
\* stretch of other text nearly half a context window long.
PieceLen(piece) ==
    CASE piece.kind = "date" -> 16
      [] piece.kind = "link" -> 60
      [] piece.kind = "fill" -> 480

\* The number of characters before piece i of the text.
RECURSIVE Offset(_, _)
Offset(text, i) ==
    IF i <= 1 THEN 0 ELSE Offset(text, i - 1) + PieceLen(text[i - 1])

\* response.text.find(date_pattern): the place of the first date literal, as
\* a piece number; 0 stands for find's -1.
PyFind(text, date_pattern) ==
    IF \E i \in 1..Len(text) : text[i] = date_pattern
    THEN CHOOSE i \in 1..Len(text) :
             /\ text[i] = date_pattern
             /\ \A j \in 1..(i - 1) : text[j] # date_pattern
    ELSE 0

\* re.search(href pattern, response.text[idx:idx+1000]): the first link that
\* lies wholly in the 1000 characters starting at the date literal.
SearchContext(text, idx) ==
    LET hits == {j \in (idx + 1)..Len(text) :
                    /\ text[j].kind = "link"
                    /\ Offset(text, j) + PieceLen(text[j])
                          <= Offset(text, idx) + ContextWindow}
    IN  IF hits = {} THEN None
        ELSE Some(text[CHOOSE j \in hits : \A k \in hits : j <= k])

\* The lines shared by the fast path (260-272) and check_page (235-248):
\* find the date literal, then the first link in the context after it.
LinkAfterDate(text, date_pattern) ==
    IF PyFind(text, date_pattern) = 0 THEN None
    ELSE SearchContext(text, PyFind(text, date_pattern))

\* What a GET meets: a page, a status raise_for_status rejects, or no answer.
Page(text) == [kind |-> "ok", text |-> text]
HttpError == [kind |-> "http_error", text |-> <<>>]
Timeout == [kind |-> "timeout", text |-> <<>>]

\* requests.get(...) followed by response.raise_for_status().
GetRaises(response) == response.kind # "ok"

\* The requests: the date query, and archive page page_num (page 1 is the
\* archive's front page).
SearchRequest(date) == [kind |-> "search", at |-> date]
ArchiveRequest(page_num) == [kind |-> "archive", at |-> page_num]

\* The answer of the site to the GET of an archive page: web.archive holds
\* the pages that stand out; any other page is text without the date.
ArchiveResponse(w, page_num) ==
    IF page_num \in DOMAIN w.archive THEN w.archive[page_num]
    ELSE Page(<<Fill>>)

\* The answer of the site to the date query of a date: web.search holds the
\* dates whose query stands out; any other query gives text without the date.
SearchResponse(w, date) ==
    IF date \in DOMAIN w.search THEN w.search[date] ELSE Page(<<Fill>>)

\* Mutant: an exception of the GET leaves check_page.
check_pageUnguarded(w, date, page_num) ==
    IF GetRaises(ArchiveResponse(w, page_num))
    THEN Raise("RequestException")
    ELSE Return(LinkAfterDate(ArchiveResponse(w, page_num).text,
                              DateLiteral(date)))

\* check_page: the link of the date on archive page page_num, None when the
\* page has none or the GET raised (except Exception: pass).
check_page(w, date, page_num) ==
    IF GetRaises(ArchiveResponse(w, page_num))
    THEN Return(None)
    ELSE Return(LinkAfterDate(ArchiveResponse(w, page_num).text,
                              DateLiteral(date)))

\* estimated_page: max(1, days_ago // 10), then min(estimated_page,
\* max_pages).
EstimatedPage(days_ago, max_pages) ==
    Min2(Max2(1, days_ago \div EntriesPerPage), max_pages)

\* Mutant: the page above the estimate is appended before the page below.
RECURSIVE PagesToCheckAboveFirst(_, _, _, _)
PagesToCheckAboveFirst(pages, estimated_page, max_pages, offset) ==
    IF offset > Radius THEN pages
    ELSE LET above == IF estimated_page + offset <= max_pages
                      THEN Append(pages, estimated_page + offset)
                      ELSE pages
             below == IF estimated_page - offset >= 1
                      THEN Append(above, estimated_page - offset)
                      ELSE above
         IN  PagesToCheckAboveFirst(below, estimated_page, max_pages,
                                    offset + 1)

\* pages_to_check: the loop over offset in range(1, 6), from `offset` on.
RECURSIVE PagesToCheck(_, _, _, _)
PagesToCheck(pages, estimated_page, max_pages, offset) ==
    IF offset > Radius THEN pages
    ELSE LET below == IF estimated_page - offset >= 1
                      THEN Append(pages, estimated_page - offset)
                      ELSE pages
             above == IF estimated_page + offset <= max_pages
                      THEN Append(below, estimated_page + offset)
                      ELSE below
         IN  PagesToCheck(above, estimated_page, max_pages, offset + 1)

\* for page in pages_to_check: result = check_page(page); if result: return
\* result.  Return(None) stands for the loop running to its end.
RECURSIVE ProbeLoop(_, _, _, _)
ProbeLoop(w, date, pages, log) ==
    IF pages = <<>> THEN [outcome |-> Return(None), fetched |-> log]
    ELSE LET log2 == Append(log, ArchiveRequest(Head(pages)))
             Probed(result) ==
                 IF result.kind = "raise" \/ result.value # None
                 THEN [outcome |-> result, fetched |-> log2]
                 ELSE ProbeLoop(w, date, Tail(pages), log2)
         IN  Bind(check_page(w, date, Head(pages)), Probed)

\* Mutant: page 1 is probed at the end whether or not it was probed before.
EstimationAlwaysFrontPage(w, date, max_pages, log) ==
    LET days_ago == w.today - date
        estimated_page == EstimatedPage(days_ago, max_pages)
        PageOne(probed) ==
            IF probed.outcome.kind = "raise" \/ probed.outcome.value # None
            THEN probed
            ELSE ProbeLoop(w, date, <<1>>, probed.fetched)
        Probe(pages_to_check) ==
            Bind(ProbeLoop(w, date, pages_to_check, log), PageOne)
    IN  Bind(PagesToCheck(<<estimated_page>>, estimated_page, max_pages, 1),
             Probe)

\* Lines 274-310: estimate the page, probe around it, then page 1 if it was
\* not among the pages probed.
Estimation(w, date, max_pages, log) ==
    LET days_ago == w.today - date
        estimated_page == EstimatedPage(days_ago, max_pages)
        PageOne(pages_to_check, probed) ==
            IF probed.outcome.kind = "raise" \/ probed.outcome.value # None
            THEN probed
            ELSE IF 1 \notin SeqRange(pages_to_check)
            THEN ProbeLoop(w, date, <<1>>, probed.fetched)
            ELSE [outcome |-> Return(None), fetched |-> probed.fetched]
        Probe(pages_to_check) ==
            Bind(ProbeLoop(w, date, pages_to_check, log),
                 LAMBDA probed : PageOne(pages_to_check, probed))
    IN  Bind(PagesToCheck(<<estimated_page>>, estimated_page, max_pages, 1),
             Probe)

\* Mutant: the date query's answer is not looked at.
LocateTryBodyNoFastPath(w, date, max_pages) ==
    IF GetRaises(SearchResponse(w, date))
    THEN [outcome |-> Raise("RequestException"), fetched |-> <<SearchRequest(date)>>]
    ELSE Estimation(w, date, max_pages, <<SearchRequest(date)>>)

\* The body of the try of get_devotional_url_by_date (lines 255-310): the
\* date query first, and the estimation when it gave no link.
LocateTryBody(w, date, max_pages) ==
    IF GetRaises(SearchResponse(w, date))
    THEN [outcome |-> Raise("RequestException"), fetched |-> <<SearchRequest(date)>>]
    ELSE IF LinkAfterDate(SearchResponse(w, date).text, DateLiteral(date))
               # None
    THEN [outcome |-> Return(LinkAfterDate(SearchResponse(w, date).text,
                                           DateLiteral(date))),
          fetched |-> <<SearchRequest(date)>>]
    ELSE Estimation(w, date, max_pages, <<SearchRequest(date)>>)

\* get_devotional_url_by_date: the try body, and None for any exception it
\* raises (except Exception, lines 311-313).  `fetched` are the requests made.
get_devotional_url_by_date(w, date, max_pages) ==
    LET Except(body) ==
            IF body.outcome.kind = "raise"
            THEN [outcome |-> Return(None), fetched |-> body.fetched]
            ELSE body
    IN  Bind(LocateTryBody(w, date, max_pages), Except)


(***************************************************************************)
(* SpecLocate: one call of get_devotional_url_by_date, for a date the site *)
(* may know, with any clock, any page limit and any answers of the site.   *)
(***************************************************************************)
Texts(pieces, n) ==
    UNION {[1..k -> pieces] : k \in 0..n}

\* Page texts of the date query: up to TextLen pieces.
QueryTexts(date) ==
    Texts({DateLiteral(date), Fill, Link(<<"query", 1>>),
           Link(<<"query", 2>>)}, TextLen)

\* An archive page that stands out: it fails, or it has the date with a
\* link right after it, or with a link too far after it.
ArchiveAnswers(date, page_num) ==
    {Timeout, HttpError,
     Page(<<DateLiteral(date), Link(<<"page", page_num>>)>>),
     Page(<<DateLiteral(date), Fill, Fill, Fill,
            Link(<<"page", page_num>>)>>)}

PageNumbers == (-1)..MaxPage

\* Archives where up to two pages stand out.
Archives(date) ==
    UNION {{a \in [pages -> UNION {ArchiveAnswers(date, p) : p \in pages}] :
               \A p \in pages : a[p] \in ArchiveAnswers(date, p)} :
              pages \in {ps \in SUBSET PageNumbers : Cardinality(ps) <= 2}}

DaysAgoValues == {-3, 0, 10, 19, 20, 35, 70, 4000}
MaxPagesValues == {-1, 0, 1, 3, 11, DefaultMaxPages}

\* The date query answers in every way; the archive has the date on its
\* front page or nowhere.
FastPathWebs(date) ==
    {[today |-> date + days_ago, search |-> [d \in {date} |-> answer],
      archive |-> archive] :
        days_ago \in {0, 60},
        answer \in {Page(t) : t \in QueryTexts(date)} \cup {Timeout, HttpError},
        archive \in {<<>>,
                     [p \in {1} |->
                         Page(<<DateLiteral(date), Link(<<"page", p>>)>>)]}}

\* The date query gives no link or fails; the archive answers in every way.
EstimationWebs(date) ==
    {[today |-> date + days_ago, search |-> [d \in {date} |-> answer],
      archive |-> archive] :
        days_ago \in DaysAgoValues,
        answer \in {Page(<<>>), Timeout,
                    Page(<<DateLiteral(date), Fill, Fill, Fill,
                           Link(<<"query", 1>>)>>)},
        archive \in Archives(date)}

LocateWebs == FastPathWebs(1) \cup EstimationWebs(1)

InitLocate ==
    /\ options = DefaultOptions
    /\ videos = <<>>
    /\ downloaders = <<>>
    /\ disk = {}
    /\ regOrder = <<>>
    /\ web \in LocateWebs
    /\ fetched = <<>>
    /\ ret = Idle

GetDevotionalUrlByDate ==
    /\ ret = Idle
    /\ \E date \in DOMAIN web.search, max_pages \in MaxPagesValues :
        \E got \in {get_devotional_url_by_date(web, date, max_pages)} :
            /\ fetched' = got.fetched
            /\ ret' = [op |-> "get_devotional_url_by_date", date |-> date,
                       max_pages |-> max_pages, outcome |-> got.outcome]
    /\ UNCHANGED <<options, videos, downloaders, disk, regOrder, web>>

NextLocate == GetDevotionalUrlByDate

SpecLocate == InitLocate /\ [][NextLocate]_vars

(***************************************************************************)
(* Keys for Kids downloads by date (keysforkids.py:31-94, 315-366).        *)
(***************************************************************************)
\* A devotional's detail page: the audio URL _find_audio_url finds in it,
\* None when it finds none, and the file name its metadata give.
DetailPage(audio_url, filename) ==
    [kind |-> "ok", text |-> <<>>, audio |-> audio_url, filename |-> filename]

DetailRequest(url) == [kind |-> "detail", url |-> url]
AudioRequest(audio_url) == [kind |-> "audio", url |-> audio_url]

\* The answers of the site to the GET of a detail page and of an audio file.
DetailResponse(w, url) ==
    IF url \in DOMAIN w.detail THEN w.detail[url] ELSE HttpError

AudioResponse(w, audio_url) ==
    IF audio_url \in DOMAIN w.audio THEN w.audio[audio_url] ELSE HttpError

\* KeysForKidsDownloader.download_video: GET the page, find the audio URL,
\* make the output directory, GET the audio, write the file.  Nothing is
\* caught: the exceptions of requests and the ValueError leave the call.
KeysForKids_download_video(w, opts, url, dsk, log) ==
    LET response == DetailResponse(w, url)
        log1 == Append(log, DetailRequest(url))
    IN  IF GetRaises(response)
        THEN [outcome |-> Raise("RequestException"), disk |-> dsk,
              fetched |-> log1]
        ELSE IF response.audio = None
        THEN [outcome |-> Raise("ValueError"), disk |-> dsk, fetched |-> log1]
        ELSE LET output_dir == PyPath(opts.output_dir)
                 output_file == output_dir \o "/" \o response.filename
                 log2 == Append(log1, AudioRequest(response.audio[1]))
             IN  IF GetRaises(AudioResponse(w, response.audio[1]))
                 THEN [outcome |-> Raise("RequestException"),
                       disk |-> dsk \cup {output_dir}, fetched |-> log2]
                 ELSE [outcome |-> Return(output_file),
                       disk |-> dsk \cup {output_dir, output_file},
                       fetched |-> log2]

\* download_by_date: locate the date with the default max_pages; None when
\* it is not found, else the path download_video returns.
download_by_date(w, date, output_dir, dsk, log) ==
    LET opts == [DefaultOptions EXCEPT !.output_dir = output_dir]
        Downloaded(got) ==
            IF got.outcome.kind = "raise" THEN got
            ELSE [got EXCEPT !.outcome = Return(Some(got.outcome.value))]
        Download(url, log1) ==
            LET made == Construct("KeysForKidsDownloader", opts, dsk)
            IN  IF made.raised
                THEN [outcome |-> Raise(made.error), disk |-> made.disk,
                      fetched |-> log1]
                ELSE Bind(KeysForKids_download_video(w, opts, url, made.disk,
                                                     log1),
                          Downloaded)
        Found(located) ==
            IF located.outcome.value = None
            THEN [outcome |-> Return(None), disk |-> dsk,
                  fetched |-> log \o located.fetched]
            ELSE Download(located.outcome.value[1], log \o located.fetched)
    IN  Bind(get_devotional_url_by_date(w, date, DefaultMaxPages), Found)

\* Mutant: the loop ends at the first date that is not found.
RECURSIVE DateRangeLoopStopAtMissing(_, _, _, _, _, _, _)
DateRangeLoopStopAtMissing(w, current_date, end_date, output_dir, downloaded_files, dsk, log) ==
    IF current_date > end_date
    THEN [outcome |-> Return(downloaded_files), disk |-> dsk, fetched |-> log]
    ELSE LET NextDay(got) ==
                 IF got.outcome.kind = "raise" THEN got
                 ELSE IF got.outcome.value = None
                 THEN [outcome |-> Return(downloaded_files),
                       disk |-> got.disk, fetched |-> got.fetched]
                 ELSE DateRangeLoopStopAtMissing(
                          w, current_date + 1, end_date, output_dir,
                          Append(downloaded_files, got.outcome.value[1]),
                          got.disk, got.fetched)
         IN  Bind(download_by_date(w, current_date, output_dir, dsk, log),
                  NextDay)

\* The while loop of download_date_range, from current_date on: a path is
\* appended, None is skipped, an exception leaves the loop and the call.
RECURSIVE DateRangeLoop(_, _, _, _, _, _, _)
DateRangeLoop(w, current_date, end_date, output_dir, downloaded_files, dsk, log) ==
    IF current_date > end_date
    THEN [outcome |-> Return(downloaded_files), disk |-> dsk, fetched |-> log]
    ELSE LET NextDay(got) ==
                 IF got.outcome.kind = "raise" THEN got
                 ELSE DateRangeLoop(
                          w, current_date + 1, end_date, output_dir,
                          IF got.outcome.value # None
                          THEN Append(downloaded_files, got.outcome.value[1])
                          ELSE downloaded_files,
                          got.disk, got.fetched)
         IN  Bind(download_by_date(w, current_date, output_dir, dsk, log),
                  NextDay)

download_date_range(w, start_date, end_date, output_dir, dsk) ==
    DateRangeLoop(w, start_date, end_date, output_dir, <<>>, dsk, <<>>)

(***************************************************************************)
(* The keysforkids command of the CLI (cli.py:213-296).  A date option is  *)
(* a string: one that strptime reads as a day, or one it rejects.          *)
(***************************************************************************)
DateString(day) == [valid |-> TRUE, day |-> day]
BadDateString == [valid |-> FALSE, day |-> 0]

\* datetime.strptime(s, '%Y-%m-%d').
PyStrptime(s) == IF s.valid THEN Return(s.day) ELSE Raise("ValueError")

\* sys.exit(code) and the end of the command.
Exit(code) == [kind |-> "exit", code |-> code]

\* if file_path: ... else: sys.exit(1), after download_by_date.
AfterDownloadByDate(got) ==
    [got EXCEPT !.outcome =
        IF @.kind = "raise" THEN @
        ELSE IF @.value # None THEN Exit(0) ELSE Exit(1)]

\* if files: ... else: sys.exit(1), after download_date_range.
AfterDownloadDateRange(got) ==
    [got EXCEPT !.outcome =
        IF @.kind = "raise" THEN @
        ELSE IF @.value # <<>> THEN Exit(0) ELSE Exit(1)]

\* The try body of the command (lines 227-289).
KeysforkidsTryBody(w, date, start_date, end_date, last_days, output_dir, dsk) ==
    LET failed(e) == [outcome |-> e, disk |-> dsk, fetched |-> <<>>]
    IN  IF date # None
        THEN IF PyStrptime(date[1]).kind = "raise"
             THEN failed(PyStrptime(date[1]))
             ELSE AfterDownloadByDate(
                      download_by_date(w, PyStrptime(date[1]).value,
                                       output_dir, dsk, <<>>))
        ELSE IF start_date # None /\ end_date # None
        THEN IF PyStrptime(start_date[1]).kind = "raise"
             THEN failed(PyStrptime(start_date[1]))
             ELSE IF PyStrptime(end_date[1]).kind = "raise"
             THEN failed(PyStrptime(end_date[1]))
             ELSE IF PyStrptime(start_date[1]).value
                        > PyStrptime(end_date[1]).value
             THEN failed(Exit(1))
             ELSE AfterDownloadDateRange(
                      download_date_range(w, PyStrptime(start_date[1]).value,
                                          PyStrptime(end_date[1]).value,
                                          output_dir, dsk))
        ELSE IF TruthyInt(last_days)
        THEN AfterDownloadDateRange(
                 download_date_range(w, w.today - (last_days[1] - 1),
                                     w.today, output_dir, dsk))
        ELSE AfterDownloadByDate(
                 download_by_date(w, w.today, output_dir, dsk, <<>>))

\* keysforkids: the try body; except ValueError and except Exception both
\* end in sys.exit(1).  `code` is the exit status of the command.
keysforkids(w, date, start_date, end_date, last_days, output_dir, dsk) ==
    LET Except(body) ==
            [code |-> IF body.outcome.kind = "raise" THEN 1
                      ELSE body.outcome.code,
             disk |-> body.disk, fetched |-> body.fetched]
    IN  Bind(KeysforkidsTryBody(w, date, start_date, end_date, last_days,
                                output_dir, dsk),
             Except)

(***************************************************************************)
(* SpecBatch: one download_date_range call or one keysforkids command,     *)
(* over days the site answers for in every way.                            *)
(***************************************************************************)
Dates == 1..MaxDays

\* How the site stands for one day: where the date is found (by the date
\* query, on the archive front page, nowhere) and how its download goes.
DayKinds ==
    {[locate |-> "query", download |-> d] :
        d \in {"ok", "page fails", "no audio", "audio fails"}}
    \cup {[locate |-> "archive", download |-> "ok"],
          [locate |-> "nowhere", download |-> "ok"]}

\* The archive front page: date and link of each day found there.
RECURSIVE FrontPage(_, _)
FrontPage(kinds, day) ==
    IF day > MaxDays THEN <<>>
    ELSE (IF kinds[day].locate = "archive"
          THEN <<DateLiteral(day), Link(<<"entry", day>>)>>
          ELSE <<>>) \o FrontPage(kinds, day + 1)

DayFileName(day) == "devotional_" \o ToString(day) \o ".mp3"

BatchWeb(kinds) ==
    [today |-> MaxDays,
     search |-> [day \in Dates |->
                    IF kinds[day].locate = "query"
                    THEN Page(<<DateLiteral(day), Link(<<"entry", day>>)>>)
                    ELSE Page(<<>>)],
     archive |-> [p \in {1} |-> Page(FrontPage(kinds, 1))],
     detail |-> [url \in {Link(<<"entry", day>>) : day \in Dates} |->
                    CASE kinds[url.id[2]].download = "page fails" -> HttpError
                      [] kinds[url.id[2]].download = "no audio" ->
                             DetailPage(None, DayFileName(url.id[2]))
                      [] OTHER ->
                             DetailPage(Some(url.id[2]),
                                        DayFileName(url.id[2]))],
     audio |-> [a \in Dates |->
                   IF kinds[a].download = "audio fails" THEN Timeout
                   ELSE Page(<<>>)]]

BatchWebs == {BatchWeb(kinds) : kinds \in [Dates -> DayKinds]}

InitBatch ==
    /\ options = DefaultOptions
    /\ videos = <<>>
    /\ downloaders = <<>>
    /\ disk = {}
    /\ regOrder = <<>>
    /\ web \in BatchWebs
    /\ fetched = <<>>
    /\ ret = Idle

DownloadDateRange ==
    /\ ret = Idle
    /\ \E start_date \in Dates, end_date \in Dates :
        \E got \in {download_date_range(web, start_date, end_date,
                                        DefaultOptions.output_dir, disk)} :
            /\ disk' = got.disk
            /\ fetched' = got.fetched
            /\ ret' = [op |-> "download_date_range",
                       start_date |-> start_date, end_date |-> end_date,
                       outcome |-> got.outcome]
    /\ UNCHANGED <<options, videos, downloaders, regOrder, web>>

DateOptions == {None, Some(BadDateString)} \cup {Some(DateString(d)) : d \in Dates}
LastDaysOptions == {None} \cup {Some(n) : n \in (-1)..MaxDays}

KeysforkidsCommand ==
    /\ ret = Idle
    /\ \E date \in DateOptions, start_date \in DateOptions,
          end_date \in DateOptions, last_days \in LastDaysOptions :
        /\ date # None => start_date = None /\ end_date = None
                             /\ last_days = None
        /\ start_date # None \/ end_date # None => last_days = None
        /\ \E got \in {keysforkids(web, date, start_date, end_date, last_days,
                                   DefaultOptions.output_dir, disk)} :
            /\ disk' = got.disk
            /\ fetched' = got.fetched
            /\ ret' = [op |-> "keysforkids", date |-> date,
                       start_date |-> start_date, end_date |-> end_date,
                       last_days |-> last_days, code |-> got.code]
    /\ UNCHANGED <<options, videos, downloaders, regOrder, web>>

NextBatch == DownloadDateRange \/ KeysforkidsCommand

SpecBatch == InitBatch /\ [][NextBatch]_vars

(***************************************************************************)
(* Downloads through yt-dlp (youtube.py:113-345, cbn.py:173-256) and the   *)
(* metadata of a Keys for Kids page (keysforkids.py:96-121).  For a URL    *)
(* the site gives the title of the video and how yt-dlp fares with it.     *)
(***************************************************************************)
PlaylistUrl == "https://www.youtube.com/playlist?list=PL1"

\* VideoInfo.url of a playlist entry.
VideoUrl(video) == "https://www.youtube.com/watch?v=" \o ToString(video[2])

\* How yt-dlp fares with a URL: it works; it raises yt_dlp.DownloadError
\* with a message about a bot check, about formats (and the fallback format
\* then works or fails), or about something else; it raises another
\* exception.
YtAnswers ==
    {"ok", "bot", "format, fallback ok", "format, fallback fails",
     "unavailable", "crash"}

YtAnswer(w, url) ==
    IF url \in DOMAIN w.download THEN w.download[url]
    ELSE [answer |-> "unavailable", title |-> ""]

DownloadRequest(url) == [kind |-> "download", url |-> url]
InfoRequest(url) == [kind |-> "info", url |-> url]

\* ydl.prepare_filename(info) under outtmpl output_dir/%(title)s.%(ext)s,
\* without its directory.
PrepareFilename(title) == title \o ".mp4"

\* The name download_video returns after a download that worked at once:
\* for audio_only with an audio_format, os.path.splitext(filename)[0] with
\* the audio format as extension (lines 257-260).
ReturnedName(opts, title) ==
    IF opts.audio_only /\ opts.audio_format # None
    THEN title \o "." \o opts.audio_format[1]
    ELSE PrepareFilename(title)

\* os.path.join(output_dir, name), and the same file as Path spells it.
PyJoin(output_dir, name) == output_dir \o "/" \o name
FileOnDisk(output_dir, name) == PyPath(output_dir) \o "/" \o name

\* What yt-dlp and its FFmpegExtractAudio post-processor leave on disk for
\* a title (youtube.py:72-86): for audio the audio_format as extension, or
\* the one of the best native codec ("m4a" here) without an audio_format.
WrittenName(opts, title) ==
    IF opts.audio_only
    THEN title \o "." \o
             (IF opts.audio_format # None THEN opts.audio_format[1] ELSE "m4a")
    ELSE PrepareFilename(title)

FallbackRequest(url) == [kind |-> "fallback", url |-> url]

\* YouTubeDownloader.download_video: extract_info(url, download=True); a
\* yt_dlp.DownloadError about formats is retried with the fallback format,
\* whose file name is returned as prepare_filename gives it; every failure
\* leaves as DownloadError.
YouTube_download_video(w, opts, url, dsk, log) ==
    LET answer == YtAnswer(w, url)
        log1 == Append(log, DownloadRequest(url))
        log2 == Append(log1, FallbackRequest(url))
        written == FileOnDisk(opts.output_dir, WrittenName(opts, answer.title))
    IN  CASE answer.answer = "ok" ->
                 [outcome |-> Return(PyJoin(opts.output_dir,
                                            ReturnedName(opts, answer.title))),
                  disk |-> dsk \cup {written}, fetched |-> log1]
          [] answer.answer = "format, fallback ok" ->
                 [outcome |-> Return(PyJoin(opts.output_dir,
                                            PrepareFilename(answer.title))),
                  disk |-> dsk \cup {written}, fetched |-> log2]
          [] answer.answer = "format, fallback fails" ->
                 [outcome |-> Raise("DownloadError"), disk |-> dsk,
                  fetched |-> log2]
          [] OTHER ->
                 [outcome |-> Raise("DownloadError"), disk |-> dsk,
                  fetched |-> log1]

\* YouTubeDownloader.get_video_info and CBNDownloader.get_video_info:
\* extract_info(url, download=False) in try/except Exception.  A complaint
\* about formats comes with a download only.
YtDlp_get_video_info(w, url, log) ==
    LET answer == YtAnswer(w, url)
        log1 == Append(log, InfoRequest(url))
    IN  IF answer.answer \in {"bot", "unavailable", "crash"}
        THEN [outcome |-> Raise("DownloadError"), fetched |-> log1]
        ELSE [outcome |-> Return([title |-> answer.title, url |-> url]),
              fetched |-> log1]

\* KeysForKidsDownloader.get_video_info: GET the page and read its metadata,
\* in try/except Exception.
KeysForKids_get_video_info(w, url, log) ==
    LET response == DetailResponse(w, url)
        log1 == Append(log, DetailRequest(url))
    IN  IF GetRaises(response)
        THEN [outcome |-> Raise("DownloadError"), fetched |-> log1]
        ELSE [outcome |-> Return([title |-> response.filename, url |-> url]),
              fetched |-> log1]

\* CBNDownloader._create_netflix_filename for a URL that is no Flying House
\* episode, a title of word characters without an episode number and no
\* description: "CBN Video - <title>.<ext>".
_create_netflix_filename(title, ext) == "CBN Video - " \o title \o "." \o ext

\* CBNDownloader.download_video: extract_info(url, download=False) for the
\* name, then download([url]) to that name, all in try/except Exception.
\* Audio without an audio_format is written with the extension yt-dlp
\* picks ("m4a" here) while the name returned keeps the video extension.
CBN_download_video(w, opts, url, dsk, log) ==
    LET answer == YtAnswer(w, url)
        log1 == Append(log, InfoRequest(url))
        log2 == Append(log1, DownloadRequest(url))
        ext == IF opts.audio_only /\ opts.audio_format # None
               THEN opts.audio_format[1] ELSE "mp4"
        final_path == PyJoin(opts.output_dir,
                             _create_netflix_filename(answer.title, ext))
        written == IF opts.audio_only /\ opts.audio_format = None
                   THEN _create_netflix_filename(answer.title, "m4a")
                   ELSE _create_netflix_filename(answer.title, ext)
    IN  CASE answer.answer = "ok" ->
                 [outcome |-> Return(final_path),
                  disk |-> dsk \cup {FileOnDisk(opts.output_dir, written)},
                  fetched |-> log2]
          [] answer.answer \in {"format, fallback ok",
                                "format, fallback fails"} ->
                 [outcome |-> Raise("DownloadError"), disk |-> dsk,
                  fetched |-> log2]
          [] OTHER ->
                 [outcome |-> Raise("DownloadError"), disk |-> dsk,
                  fetched |-> log1]

\* download_video of a class.
download_video(cls, w, opts, url, dsk, log) ==
    CASE cls = "YouTubeDownloader" ->
             YouTube_download_video(w, opts, url, dsk, log)
      [] cls = "CBNDownloader" -> CBN_download_video(w, opts, url, dsk, log)
      [] cls = "KeysForKidsDownloader" ->
             KeysForKids_download_video(w, opts, url, dsk, log)

\* get_video_info of a class.
get_video_info(cls, w, url, log) ==
    IF cls = "KeysForKidsDownloader"
    THEN KeysForKids_get_video_info(w, url, log)
    ELSE YtDlp_get_video_info(w, url, log)

\* YouTubeDownloader.get_playlist_info: the entries of the playlist, or
\* DownloadError when extract_info fails or gives no entries.
get_playlist_info(w, vids) ==
    IF w.playlist = "ok" THEN Return(vids) ELSE Raise("DownloadError")

\* Mutant: the loop over the entries ends at the first failure.
RECURSIVE PlaylistLoopAbort(_, _, _, _, _, _)
PlaylistLoopAbort(w, opts, filtered_videos, downloaded_files, dsk, log) ==
    IF filtered_videos = <<>>
    THEN [outcome |-> Return(downloaded_files), disk |-> dsk, fetched |-> log]
    ELSE LET NextVideo(got) ==
                 IF got.outcome.kind = "raise"
                 THEN [outcome |-> Return(downloaded_files),
                       disk |-> got.disk, fetched |-> got.fetched]
                 ELSE PlaylistLoopAbort(
                          w, opts, Tail(filtered_videos),
                          Append(downloaded_files, got.outcome.value),
                          got.disk, got.fetched)
         IN  Bind(YouTube_download_video(
                      w, opts, VideoUrl(Head(filtered_videos)), dsk, log),
                  NextVideo)

\* for i, video in enumerate(filtered_videos, 1): try download_video,
\* append the file name; except Exception: continue (lines 333-340).
RECURSIVE PlaylistLoop(_, _, _, _, _, _)
PlaylistLoop(w, opts, filtered_videos, downloaded_files, dsk, log) ==
    IF filtered_videos = <<>>
    THEN [outcome |-> Return(downloaded_files), disk |-> dsk, fetched |-> log]
    ELSE LET NextVideo(got) ==
                 PlaylistLoop(
                     w, opts, Tail(filtered_videos),
                     IF got.outcome.kind = "raise" THEN downloaded_files
                     ELSE Append(downloaded_files, got.outcome.value),
                     got.disk, got.fetched)
         IN  Bind(YouTube_download_video(
                      w, opts, VideoUrl(Head(filtered_videos)), dsk, log),
                  NextVideo)

\* YouTubeDownloader.download_playlist: the entries, the selection, the
\* loop; any exception outside the loop leaves as DownloadError.
YouTube_download_playlist(w, opts, vids, dsk, log) ==
    LET listed == get_playlist_info(w, vids)
        log1 == Append(log, InfoRequest(PlaylistUrl))
        empty == [outcome |-> Return(<<>>), disk |-> dsk, fetched |-> log1]
        Loop(filtered) ==
            IF filtered.kind = "raise"
            THEN [outcome |-> Raise("DownloadError"), disk |-> dsk,
                  fetched |-> log1]
            ELSE IF filtered.value = <<>> THEN empty
            ELSE PlaylistLoop(w, opts, filtered.value, <<>>, dsk, log1)
    IN  IF listed.kind = "raise"
        THEN [outcome |-> Raise("DownloadError"), disk |-> dsk,
              fetched |-> log1]
        ELSE IF listed.value = <<>> THEN empty
        ELSE Bind(_filter_playlist_by_range(listed.value, opts), Loop)

\* is_playlist of a class: the playlist patterns of YouTubeDownloader, False
\* for CBNDownloader, BaseDownloader's "playlist" or "list=" in the URL for
\* KeysForKidsDownloader.
is_playlist(cls, url) ==
    CASE cls = "YouTubeDownloader" -> url = PlaylistUrl
      [] cls = "CBNDownloader" -> FALSE
      [] cls = "KeysForKidsDownloader" -> url = PlaylistUrl

\* [self.download_video(url)].
DownloadOne(cls, w, opts, url, dsk, log) ==
    LET List(got) ==
            IF got.outcome.kind = "raise" THEN got
            ELSE [got EXCEPT !.outcome = Return(<<got.outcome.value>>)]
    IN  Bind(download_video(cls, w, opts, url, dsk, log), List)

\* download_playlist of a class.
download_playlist(cls, w, opts, url, vids, dsk, log) ==
    IF cls = "YouTubeDownloader"
    THEN YouTube_download_playlist(w, opts, vids, dsk, log)
    ELSE DownloadOne(cls, w, opts, url, dsk, log)

\* Mutant: a playlist URL is downloaded as a single video as well.
downloadVideoAlways(cls, w, opts, url, vids, dsk, log) ==
    DownloadOne(cls, w, opts, url, dsk, log)

\* BaseDownloader.download.
download(cls, w, opts, url, vids, dsk, log) ==
    IF is_playlist(cls, url)
    THEN download_playlist(cls, w, opts, url, vids, dsk, log)
    ELSE DownloadOne(cls, w, opts, url, dsk, log)

\* The download command of the CLI (cli.py:72-120): the handler of the URL
\* from the registry, its download, sys.exit(1) when no file came of it or
\* an exception was raised.  `code` is the exit status.
download_command(d, w, opts, url, vids, dsk) ==
    LET Report(got) ==
            [code |-> IF got.outcome.kind = "raise" THEN 1
                      ELSE IF got.outcome.value # <<>> THEN 0 ELSE 1,
             disk |-> got.disk, fetched |-> got.fetched]
        Download(found) ==
            IF found.outcome.kind = "raise"
            THEN [code |-> 1, disk |-> found.disk, fetched |-> <<>>]
            ELSE Bind(download(found.outcome.value.cls, w, opts, url, vids,
                               found.disk, <<>>),
                      Report)
    IN  Bind(get_downloader_for_url(d, url, opts, dsk), Download)

(***************************************************************************)
(* SpecDownload: one download_playlist, download_video or get_video_info   *)
(* call of a new downloader, or one download command, with the registry    *)
(* as the import of abedl.registry leaves it.                              *)
(***************************************************************************)
BuiltinDownloaders ==
    <<[name |-> "youtube", cls |-> "YouTubeDownloader"],
      [name |-> "cbn", cls |-> "CBNDownloader"]>>

\* The URL a class is asked to download in the model.
ClassUrl(cls) ==
    CASE cls = "YouTubeDownloader" -> YouTubeUrl
      [] cls = "CBNDownloader" -> CBNUrl
      [] cls = "KeysForKidsDownloader" -> KeysForKidsUrl

\* The site for a playlist: how yt-dlp fares with the playlist and with each
\* entry; single videos work.
PlaylistWebs(vids) ==
    {[playlist |-> listing,
      download |->
          [url \in {VideoUrl(vids[i]) : i \in 1..Len(vids)}
                      \cup {YouTubeUrl, CBNUrl} |->
              IF url \in {YouTubeUrl, CBNUrl}
              THEN [answer |-> "ok", title |-> "single"]
              ELSE LET i == CHOOSE k \in 1..Len(vids) : VideoUrl(vids[k]) = url
                   IN  [answer |-> answers[i],
                        title |-> "video_" \o ToString(i)]],
      detail |-> [url \in {KeysForKidsUrl} |-> HttpError],
      audio |-> <<>>] :
        listing \in {"ok", "fails"},
        answers \in [1..Len(vids) ->
                        {"ok", "bot", "format, fallback ok", "crash"}]}

\* The site for single videos and pages: yt-dlp and keysforkids.org answer
\* in every way.
VideoWebs ==
    {[playlist |-> "ok",
      download |-> [url \in {YouTubeUrl, CBNUrl} |->
                       [answer |-> IF url = YouTubeUrl THEN youtube ELSE cbn,
                        title |-> "single"]],
      detail |-> [url \in {KeysForKidsUrl} |-> page],
      audio |-> [a \in {1} |-> audio]] :
        youtube \in YtAnswers, cbn \in YtAnswers,
        page \in {Timeout, HttpError, DetailPage(None, "devotional.mp3"),
                  DetailPage(Some(1), "devotional.mp3")},
        audio \in {Page(<<>>), Timeout}}

InitDownload ==
    /\ options = DefaultOptions
    /\ \/ /\ videos \in {MockVideos(n) : n \in 0..(MaxN + 1)}
          /\ web \in PlaylistWebs(videos)
       \/ /\ videos = <<>>
          /\ web \in VideoWebs
    /\ downloaders = BuiltinDownloaders
    /\ disk = {}
    /\ regOrder = list_downloaders(BuiltinDownloaders)
    /\ fetched = <<>>
    /\ ret = Idle

\* audio_only and audio_format: video, audio as it comes, audio as mp3.
AudioOptions == {<<FALSE, None>>, <<TRUE, None>>, <<TRUE, Some("mp3")>>}

\* The options of a playlist download: a selection or a window, video or
\* audio.
PlaylistOptions ==
    {[DefaultOptions EXCEPT !.playlist_items = items, !.playlist_start = start,
                            !.playlist_end = end, !.audio_only = audio[1],
                            !.audio_format = audio[2]] :
        items \in {None, Some(<<"2", ",", "1">>), Some(<<"1", "-", "3">>),
                   Some(<<"x">>)},
        start \in {1, 2}, end \in {None, Some(2)}, audio \in AudioOptions}

\* The options of a download command: a quality of Qualities, video or
\* audio.
CommandOptions ==
    {[DefaultOptions EXCEPT !.quality = q, !.audio_only = audio[1],
                            !.audio_format = audio[2]] :
        q \in Qualities, audio \in AudioOptions}

\* YouTubeDownloader(opts).download_playlist(PlaylistUrl).
DownloadPlaylist ==
    /\ ret = Idle
    /\ \E opts \in PlaylistOptions :
        \E made \in {Construct("YouTubeDownloader", opts, disk)} :
            /\ ~made.raised
            /\ \E got \in {YouTube_download_playlist(web, opts, videos,
                                                     made.disk, <<>>)} :
                /\ options' = opts
                /\ disk' = got.disk
                /\ fetched' = got.fetched
                /\ ret' = [op |-> "download_playlist",
                           outcome |-> got.outcome]
    /\ UNCHANGED <<videos, downloaders, regOrder, web>>

\* cls(opts).download_video(url).
DownloadVideo ==
    /\ ret = Idle
    /\ \E cls \in Classes, audio \in AudioOptions :
        \E opts \in {[DefaultOptions EXCEPT !.audio_only = audio[1],
                                            !.audio_format = audio[2]]} :
            \E made \in {Construct(cls, opts, disk)} :
                /\ ~made.raised
                /\ \E got \in {download_video(cls, web, opts, ClassUrl(cls),
                                              made.disk, <<>>)} :
                    /\ options' = opts
                    /\ disk' = got.disk
                    /\ fetched' = got.fetched
                    /\ ret' = [op |-> "download_video", cls |-> cls,
                               outcome |-> got.outcome]
    /\ UNCHANGED <<videos, downloaders, regOrder, web>>

\* cls(DownloadOptions()).get_video_info(url).
GetVideoInfo ==
    /\ ret = Idle
    /\ \E cls \in Classes :
        \E made \in {Construct(cls, DefaultOptions, disk)} :
            /\ ~made.raised
            /\ \E got \in {get_video_info(cls, web, ClassUrl(cls), <<>>)} :
                /\ disk' = made.disk
                /\ fetched' = got.fetched
                /\ ret' = [op |-> "get_video_info", cls |-> cls,
                           outcome |-> got.outcome]
    /\ UNCHANGED <<options, videos, downloaders, regOrder, web>>

\* A CBN URL that BaseDownloader.is_playlist would take for a playlist.
CBNListUrl == "https://cbn.com/tv/playlist?list=1"

\* The URLs a class is asked to download: its own, and a playlist URL.
DownloadUrls(cls) ==
    CASE cls = "YouTubeDownloader" -> {YouTubeUrl, PlaylistUrl}
      [] cls = "CBNDownloader" -> {CBNUrl, CBNListUrl}
      [] cls = "KeysForKidsDownloader" -> {KeysForKidsUrl, PlaylistUrl}

\* cls(opts).download(url), for the URL of the class and for a playlist URL.
Download ==
    /\ ret = Idle
    /\ \E cls \in Classes, url \in Urls \cup {PlaylistUrl, CBNListUrl},
          audio \in AudioOptions :
        \E opts \in {[DefaultOptions EXCEPT !.audio_only = audio[1],
                                            !.audio_format = audio[2]]} :
            \E made \in {Construct(cls, opts, disk)} :
                /\ url \in DownloadUrls(cls)
                /\ ~made.raised
                /\ \E got \in {download(cls, web, opts, url, videos,
                                        made.disk, <<>>)} :
                    /\ options' = opts
                    /\ disk' = got.disk
                    /\ fetched' = got.fetched
                    /\ ret' = [op |-> "BaseDownloader.download", cls |-> cls,
                               url |-> url, outcome |-> got.outcome]
    /\ UNCHANGED <<videos, downloaders, regOrder, web>>

\* abedl download <url> with the options of the command line.
DownloadCommand ==
    /\ ret = Idle
    /\ \E url \in Urls \cup {PlaylistUrl}, opts \in CommandOptions :
        \E got \in {download_command(downloaders, web, opts, url, videos,
                                     disk)} :
            /\ options' = opts
            /\ disk' = got.disk
            /\ fetched' = got.fetched
            /\ ret' = [op |-> "download", url |-> url, code |-> got.code]
    /\ UNCHANGED <<videos, downloaders, regOrder, web>>

NextDownload ==
    \/ DownloadPlaylist
    \/ DownloadVideo
    \/ GetVideoInfo
    \/ Download
    \/ DownloadCommand

SpecDownload == InitDownload /\ [][NextDownload]_vars

(***************************************************************************)
(* SpecBootstrap: the import of abedl.registry (registry.py:139-156), with *)
(* each of the two handler modules importable or not, then resolutions and *)
(* listings on the registry it leaves.                                     *)
(***************************************************************************)
\* Mutant: one try around both imports, so that a failed import ends the
\* registrations.
RECURSIVE RegisterBuiltinsOneTry(_, _, _)
RegisterBuiltinsOneTry(d, builtins, importable) ==
    IF builtins = <<>> THEN d
    ELSE IF Head(builtins).name \notin importable THEN d
    ELSE RegisterBuiltinsOneTry(
             register(d, Head(builtins).name, Head(builtins).cls),
             Tail(builtins), importable)

\* _register_builtin_downloaders, run on the built-in handlers still to
\* come: try: from .module import Class; register_downloader(name, Class)
\* except ImportError: print a warning.
RECURSIVE _register_builtin_downloaders(_, _, _)
_register_builtin_downloaders(d, builtins, importable) ==
    IF builtins = <<>> THEN d
    ELSE _register_builtin_downloaders(
             IF Head(builtins).name \in importable
             THEN register(d, Head(builtins).name, Head(builtins).cls)
             ELSE d,
             Tail(builtins), importable)

\* The modules whose import may fail.
BuiltinModules == {BuiltinDownloaders[i].name : i \in 1..Len(BuiltinDownloaders)}

InitBootstrap ==
    /\ options = DefaultOptions
    /\ videos = <<>>
    /\ downloaders = <<>>
    /\ disk = {}
    /\ regOrder = <<>>
    /\ web \in {[importable |-> modules] : modules \in SUBSET BuiltinModules}
    /\ fetched = <<>>
    /\ ret = Idle

\* import abedl.registry: registry = DownloaderRegistry(), then
\* _register_builtin_downloaders().
RegisterBuiltinDownloaders ==
    /\ ret = Idle
    /\ downloaders' = _register_builtin_downloaders(
                          downloaders, BuiltinDownloaders, web.importable)
    /\ regOrder' = list_downloaders(downloaders')
    /\ ret' = [op |-> "_register_builtin_downloaders",
               outcome |-> Return(None)]
    /\ UNCHANGED <<options, videos, disk, web, fetched>>

\* The module is imported.
Started == ret # Idle

NextBootstrap ==
    \/ RegisterBuiltinDownloaders
    \/ Started /\ GetDownloaderForUrl
    \/ Started /\ ListDownloaders
    \/ Started /\ GetSupportedPlatforms

SpecBootstrap == InitBootstrap /\ [][NextBootstrap]_vars

(***************************************************************************)
(* What a selection expression means, stated without the parser: the       *)
(* tokens are the pieces between commas; a numeral is a run of digits,     *)
(* possibly with blanks around it.                                         *)
(***************************************************************************)
IsNumeral(s) ==
    \E a \in 1..Len(s) : \E b \in a..Len(s) :
        /\ \A k \in 1..Len(s) : (k < a \/ k > b) => s[k] \in Whitespace
        /\ \A k \in a..b : s[k] \in Digits

NumeralValue(s) == DecimalValue(SelectSeq(s, LAMBDA c : c \in Digits))

\* The places of a hyphen that splits tok into two numerals.
RangeHyphens(tok) ==
    {h \in 1..Len(tok) :
        /\ tok[h] = "-"
        /\ IsNumeral(SubSeq(tok, 1, h - 1))
        /\ IsNumeral(SubSeq(tok, h + 1, Len(tok)))}

WellFormedToken(tok) == IsNumeral(tok) \/ RangeHyphens(tok) # {}

\* The integers a token names: n for 'n', lo..hi for 'lo-hi', none otherwise.
NamedByToken(tok) ==
    IF IsNumeral(tok) THEN {NumeralValue(tok)}
    ELSE UNION {NumeralValue(SubSeq(tok, 1, h - 1))
                    ..NumeralValue(SubSeq(tok, h + 1, Len(tok))) :
                h \in RangeHyphens(tok)}

\* The tokens of an expression, as <<first, last>> places in it.
TokenSpans(expr) ==
    {<<a, b>> \in (1..(Len(expr) + 1)) \X (0..Len(expr)) :
        /\ a <= b + 1
        /\ \A k \in a..b : expr[k] # ","
        /\ a = 1 \/ expr[a - 1] = ","
        /\ b = Len(expr) \/ expr[b + 1] = ","}

TokenAt(expr, span) == SubSeq(expr, span[1], span[2])

NamedBy(expr) ==
    IF expr = <<>> THEN {}
    ELSE UNION {NamedByToken(TokenAt(expr, sp)) : sp \in TokenSpans(expr)}

\* The expression with every token that is not well formed taken out.
RECURSIVE JoinWellFormed(_, _)
JoinWellFormed(expr, from) ==
    IF from > Len(expr) + 1 THEN <<>>
    ELSE LET sp == CHOOSE x \in TokenSpans(expr) : x[1] = from
             rest == JoinWellFormed(expr, sp[2] + 2)
             tok == TokenAt(expr, sp)
         IN  IF ~WellFormedToken(tok) THEN rest
             ELSE IF rest = <<>> THEN tok
             ELSE tok \o <<",">> \o rest

IsStrictlyAscending(xs) == \A k \in 1..(Len(xs) - 1) : xs[k] < xs[k + 1]

\* The position of an entry in the playlist.
PositionOf(v) == CHOOSE i \in 1..Len(videos) : videos[i] = v

Parsed == ret.op = "_parse_playlist_items"
Filtered == ret.op = "_filter_playlist_by_range"
Expression == options.playlist_items[1]

\* A selection expression is supplied and names at least one integer.
ExpressionMode ==
    /\ options.playlist_items # None
    /\ NamedBy(Expression) # {}

(***************************************************************************)
(* Claims about the playlist index selector.                               *)
(***************************************************************************)

\* C1: for every playlist, expression and window, the entries returned by
\* _filter_playlist_by_range are entries of the playlist whose positions are
\* strictly ascending (so without duplicates) and lie in 1..N.
C1_PositionsAscendingInRange ==
    Filtered /\ ret.outcome.kind = "return" =>
        LET out == ret.outcome.value
        IN  /\ \A k \in 1..Len(out) : out[k] \in SeqRange(videos)
            /\ \A k \in 1..(Len(out) - 1) :
                   PositionOf(out[k]) < PositionOf(out[k + 1])

\* C1 witness: an expression whose tokens are out of order selected two
\* entries.
C1_Witness ==
    /\ Filtered
    /\ Len(videos) = 2
    /\ options.playlist_items = Some(<<"2", ",", "1">>)
    /\ ret.outcome = Return(<<videos[1], videos[2]>>)

\* C2: _parse_playlist_items returns exactly the ascending, duplicate-free
\* list of the integers named by the tokens of the expression, whatever the
\* order or overlap of the tokens; the empty string gives the empty list.
C2_ParseIsSortedNamedSet ==
    Parsed =>
        /\ ret.outcome.kind = "return"
        /\ IsStrictlyAscending(ret.outcome.value)
        /\ SeqRange(ret.outcome.value) = NamedBy(Expression)

\* C2 witness: "5-8,1,3" parsed to [1, 3, 5, 6, 7, 8].
C2_Witness ==
    /\ Parsed
    /\ Expression = <<"5", "-", "8", ",", "1", ",", "3">>
    /\ ret.outcome = Return(<<1, 3, 5, 6, 7, 8>>)

\* C3: parsing never raises, and the result is the parse of the expression
\* with the tokens that are no integer and no well-formed range removed.
C3_InvalidTokensSkipped ==
    Parsed =>
        /\ ret.outcome.kind = "return"
        /\ ret.outcome = _parse_playlist_items(JoinWellFormed(Expression, 1))

\* C3 witness: an expression with a token of more than one hyphen or with a
\* leading minus, next to a well-formed token, parsed to a non-empty list.
C3_Witness ==
    /\ Parsed
    /\ ret.outcome.kind = "return"
    /\ ret.outcome.value # <<>>
    /\ \E sp \in TokenSpans(Expression) :
           LET tok == TokenAt(Expression, sp)
           IN  /\ ~WellFormedToken(tok)
               /\ tok # <<>>
               /\ tok[1] = "-" \/ Cardinality({k \in 1..Len(tok) : tok[k] = "-"}) > 1

\* C4: in expression mode the result is the same for every playlist_start
\* and playlist_end.
C4_ExpressionIgnoresWindow ==
    Filtered /\ ExpressionMode =>
        \A start \in StartValues, end \in EndValues :
            _filter_playlist_by_range(
                videos, [options EXCEPT !.playlist_start = start,
                                        !.playlist_end = end]) = ret.outcome

\* C4 witness: an expression was applied under a window that on its own
\* would have selected other entries.
C4_Witness ==
    /\ Filtered
    /\ ExpressionMode
    /\ ret.outcome.kind = "return"
    /\ ret.outcome.value # <<>>
    /\ ret.outcome.value # FilterByWindow(videos, options)

\* C5: in expression mode the result holds exactly the entries at the named
\* indices that lie in 1..N; an index out of range is skipped and the others
\* are still returned.
C5_OutOfRangeSkipped ==
    Filtered /\ ExpressionMode =>
        /\ ret.outcome.kind = "return"
        /\ LET wanted == NamedBy(Expression) \cap (1..Len(videos))
               out == ret.outcome.value
           IN  /\ Len(out) = Cardinality(wanted)
               /\ SeqRange(out) = {videos[i] : i \in wanted}

\* C5 witness: an index beyond the playlist was requested with one inside
\* it, and the one inside was returned.
C5_Witness ==
    /\ Filtered
    /\ ExpressionMode
    /\ \E i \in NamedBy(Expression) : i > Len(videos)
    /\ ret.outcome.kind = "return"
    /\ ret.outcome.value # <<>>

\* C6: with no selection expression and 1 <= start <= end <= N, the result
\* is the entries at positions start..end in their original order.
C6_WindowSelection ==
    /\ Filtered
    /\ ~TruthyStr(options.playlist_items)
    /\ options.playlist_end # None
    /\ 1 <= options.playlist_start
    /\ options.playlist_start <= options.playlist_end[1]
    /\ options.playlist_end[1] <= Len(videos)
    => ret.outcome =
         Return([i \in 1..(options.playlist_end[1] - options.playlist_start + 1)
                    |-> videos[options.playlist_start + i - 1]])

\* C6 witness: start=3, end=6 over ten entries returned entries 3, 4, 5, 6.
C6_Witness ==
    /\ Filtered
    /\ options.playlist_items = None
    /\ options.playlist_start = 3
    /\ options.playlist_end = Some(6)
    /\ Len(videos) = TestPlaylistLength
    /\ ret.outcome = Return(<<videos[3], videos[4], videos[5], videos[6]>>)

(***************************************************************************)
(* Claims about the downloader registry.                                   *)
(***************************************************************************)
Resolved == ret.op = "get_downloader_for_url"

\* The registered names whose handler accepts the URL of the last call.
AcceptingNames ==
    {downloaders[i].name : i \in {k \in 1..Len(downloaders) :
                                     can_handle(downloaders[k].cls, ret.url)}}

\* Of the accepting names, the one whose registration is the oldest.
FirstRegisteredAccepting ==
    regOrder[CHOOSE i \in 1..Len(regOrder) :
                 /\ regOrder[i] \in AcceptingNames
                 /\ \A j \in 1..(i - 1) : regOrder[j] \notin AcceptingNames]

\* C7 (as claimed): get_downloader_for_url returns an instance of the first
\* registered handler, in registration order, that accepts the URL; of two
\* registered handlers that accept it, the one registered first is returned.
C7_FirstRegisteredWins ==
    Resolved /\ AcceptingNames # {} =>
        /\ ret.outcome =
             Return([cls |-> Lookup(downloaders, FirstRegisteredAccepting),
                     options |-> ret.options])
        /\ ret.name = FirstRegisteredAccepting

\* C8 (as claimed): when exactly one registered handler accepts the URL, an
\* instance of it is returned, whatever the options and whatever handlers
\* are registered before it.
C8_OnlyAcceptingHandlerReturned ==
    Resolved /\ Cardinality(AcceptingNames) = 1 =>
        \A name \in AcceptingNames :
            /\ ret.outcome = Return([cls |-> Lookup(downloaders, name),
                                     options |-> ret.options])
            /\ ret.name = name

\* C9 (as claimed): when no registered handler accepts the URL, the registry
\* being empty included, the call fails with the no-handler DownloadError.
C9_NoHandlerDownloadError ==
    Resolved /\ AcceptingNames = {} => ret.outcome = Raise("DownloadError")

\* What a register or unregister step does to each name's handler.
RegisterStep ==
    ret'.op = "register" =>
        /\ HasKey(downloaders', ret'.name)
        /\ Lookup(downloaders', ret'.name) = ret'.cls
        /\ ret'.outcome = Return(None)
        /\ \A n \in Names \ {ret'.name} :
               /\ HasKey(downloaders', n) = HasKey(downloaders, n)
               /\ HasKey(downloaders, n) =>
                      Lookup(downloaders', n) = Lookup(downloaders, n)

UnregisterStep ==
    ret'.op = "unregister" =>
        /\ ~HasKey(downloaders', ret'.name)
        /\ ret'.outcome = Return(None)
        /\ ~HasKey(downloaders, ret'.name) => downloaders' = downloaders
        /\ \A n \in Names \ {ret'.name} :
               /\ HasKey(downloaders', n) = HasKey(downloaders, n)
               /\ HasKey(downloaders, n) =>
                      Lookup(downloaders', n) = Lookup(downloaders, n)

\* C10: the registry holds at most one handler per name; register(n, c)
\* makes n map to c and changes no other name (last write wins);
\* unregister(n) makes n absent and changes no other name; unregister of an
\* absent name leaves the registry unchanged; neither raises.
C10_LastWriteWins ==
    /\ [](\A i, j \in 1..Len(downloaders) :
              downloaders[i].name = downloaders[j].name => i = j)
    /\ [][RegisterStep /\ UnregisterStep]_vars

\* C10 witness: a name registered before another has just been registered
\* again: it is the latest registration and there is still one handler for it.
C10_Witness ==
    /\ ret.op = "register"
    /\ Len(downloaders) = 2
    /\ downloaders[1].name = ret.name
    /\ regOrder[2] = ret.name
    /\ downloaders[1].cls = ret.cls

\* What a list_downloaders or get_supported_platforms step may do.
IntrospectionStep ==
    ret'.op \in {"list_downloaders", "get_supported_platforms"} =>
        /\ UNCHANGED <<options, videos, downloaders, disk, regOrder, web,
                 fetched>>
        /\ ret'.outcome.kind = "return"
        /\ ret'.op = "get_supported_platforms" =>
               /\ Len(ret'.outcome.value) = Len(downloaders)
               /\ \A i \in 1..Len(downloaders) :
                      ret'.outcome.value[i].name = downloaders[i].name

\* C11 (as claimed): list_downloaders and get_supported_platforms are
\* read-only: a call leaves the registry mapping and all other state, the
\* output directory on disk included, unchanged, and get_supported_platforms
\* returns exactly one entry per registered name.
C11_IntrospectionReadOnly == [][IntrospectionStep]_vars

(***************************************************************************)
(* Claims about the archive date locator.                                  *)
(***************************************************************************)
Located == ret.op = "get_devotional_url_by_date"

\* The link a page text shows for a date: the first link that lies wholly in
\* the ContextWindow characters starting at the first literal of the date;
\* None when the text has no such literal or no such link.
ShownLink(text, date) ==
    LET literals == {i \in 1..Len(text) : text[i] = DateLiteral(date)}
    IN  IF literals = {} THEN None
        ELSE LET first == CHOOSE i \in literals : \A k \in literals : i <= k
                 links == {j \in (first + 1)..Len(text) :
                              /\ text[j].kind = "link"
                              /\ Offset(text, j) + PieceLen(text[j])
                                    - Offset(text, first) <= ContextWindow}
             IN  IF links = {} THEN None
                 ELSE Some(text[CHOOSE j \in links : \A k \in links : j <= k])

\* The link the date query of the last call shows; None when its GET failed.
FastPathLink ==
    IF SearchResponse(web, ret.date).kind # "ok" THEN None
    ELSE ShownLink(SearchResponse(web, ret.date).text, ret.date)

\* The link archive page page_num shows for the date of the last call.
ArchiveLink(page_num) ==
    IF ArchiveResponse(web, page_num).kind # "ok" THEN None
    ELSE ShownLink(ArchiveResponse(web, page_num).text, ret.date)

\* The archive pages fetched by the last call, in the order of their fetch.
ProbedPages ==
    LET probes == SelectSeq(fetched, LAMBDA r : r.kind = "archive")
    IN  [i \in 1..Len(probes) |-> probes[i].at]

\* C12 (as claimed): every archive page number fetched during a call of
\* get_devotional_url_by_date(date, max_pages) lies in 1..max_pages, whatever
\* the date and whatever max_pages.
C12_ProbedPagesInRange ==
    Located =>
        \A i \in 1..Len(ProbedPages) :
            1 <= ProbedPages[i] /\ ProbedPages[i] <= ret.max_pages

\* C13: when the page of the date query shows a link for the date (the date
\* literal, then a link within the 1000 characters that start at the
\* literal), that link is returned and no archive page is fetched.
C13_FastPathReturnsLink ==
    Located /\ FastPathLink # None =>
        /\ ret.outcome = Return(FastPathLink)
        /\ fetched = <<SearchRequest(ret.date)>>

\* C13 witness: the date query shows two links after the date, and the first
\* is what the call returned.
C13_Witness ==
    /\ Located
    /\ SearchResponse(web, ret.date) =
           Page(<<Fill, DateLiteral(ret.date), Link(<<"query", 2>>),
                  Link(<<"query", 1>>)>>)
    /\ 1 \in DOMAIN web.archive
    /\ ret.outcome = Return(Some(Link(<<"query", 2>>)))
    /\ ProbedPages = <<>>

\* The archive pages that are candidates of the last call: the estimated
\* page, the pages up to Radius away from it that lie in 1..max_pages, and
\* the front page.
Candidates ==
    LET estimate == EstimatedPage(web.today - ret.date, ret.max_pages)
    IN  {estimate, 1} \cup
        {p \in (estimate - Radius)..(estimate + Radius) :
            1 <= p /\ p <= ret.max_pages}

\* C14 (as claimed): when the fast path produces no link (no date literal,
\* no link in the window after it, or the date query's GET fails), the call
\* goes on to probe the candidate archive pages, and it returns None only
\* after every candidate has been probed.
C14_FallbackAfterFastPathMiss ==
    Located /\ FastPathLink = None =>
        /\ ProbedPages # <<>>
        /\ ret.outcome = Return(None) =>
               \A p \in Candidates : p \in SeqRange(ProbedPages)

\* The probe order of the last call: pages_to_check, then the front page if
\* it is not among them.
ProbeOrder ==
    LET estimate == EstimatedPage(web.today - ret.date, ret.max_pages)
        pages == PagesToCheck(<<estimate>>, estimate, ret.max_pages, 1)
    IN  IF 1 \in SeqRange(pages) THEN pages ELSE Append(pages, 1)

\* C15: a GET that fails (exception, timeout, HTTP error status) while an
\* archive page is probed counts as "not on this page": the next page of the
\* probe order is probed, and a link that a later page of the probe order
\* is the first to show is returned.
C15_ProbeErrorsSkipped ==
    Located /\ ProbedPages # <<>> =>
        \A i \in 1..Len(ProbedPages) :
            ArchiveResponse(web, ProbedPages[i]).kind # "ok" =>
                /\ ProbedPages[i] = ProbeOrder[i]
                /\ i < Len(ProbeOrder) =>
                       /\ Len(ProbedPages) > i
                       /\ ProbedPages[i + 1] = ProbeOrder[i + 1]
                /\ \A k \in (i + 1)..Len(ProbeOrder) :
                       /\ ArchiveLink(ProbeOrder[k]) # None
                       /\ \A j \in 1..(k - 1) :
                              ArchiveLink(ProbeOrder[j]) = None
                       => ret.outcome = Return(ArchiveLink(ProbeOrder[k]))

\* C15 witness: the estimated page timed out, probing went on over pages
\* without the date, and the link of a later page was returned.
C15_Witness ==
    /\ Located
    /\ Len(ProbedPages) > 2
    /\ ArchiveResponse(web, ProbedPages[1]) = Timeout
    /\ ret.outcome =
           Return(Some(Link(<<"page", ProbedPages[Len(ProbedPages)]>>)))

(***************************************************************************)
(* Claims about downloads over a date range.                               *)
(***************************************************************************)
Ranged == ret.op = "download_date_range"

\* What locating a day gives with the site as it is: its link, or None.
DayLink(day) ==
    get_devotional_url_by_date(web, day, DefaultMaxPages).outcome.value

\* A day that is located and whose download goes through: the detail page
\* answers and names an audio file, and the audio file answers.
DayDownloads(day) ==
    /\ DayLink(day) # None
    /\ DetailResponse(web, DayLink(day)[1]).kind = "ok"
    /\ DetailResponse(web, DayLink(day)[1]).audio # None
    /\ AudioResponse(web, DetailResponse(web, DayLink(day)[1]).audio[1]).kind
          = "ok"

\* The file a day's download writes.
DayFile(day) ==
    PyPath(DefaultOptions.output_dir) \o "/"
        \o DetailResponse(web, DayLink(day)[1]).filename

\* The files of the days from..to that download, in the order of the days.
RECURSIVE FilesOfDays(_, _)
FilesOfDays(from, to) ==
    IF from > to THEN <<>>
    ELSE (IF DayDownloads(from) THEN <<DayFile(from)>> ELSE <<>>)
             \o FilesOfDays(from + 1, to)

\* C16: download_date_range skips every date that is not found and returns
\* the results of the other dates: when each date of the range is either
\* not found or downloaded, the call raises nothing and returns the files of
\* the dates found, in date order (3 days with only day 2 not found: 2
\* results).
C16_NotFoundDatesSkipped ==
    /\ Ranged
    /\ \A day \in ret.start_date..ret.end_date :
           DayLink(day) = None \/ DayDownloads(day)
    => ret.outcome = Return(FilesOfDays(ret.start_date, ret.end_date))

\* C16 witness: three days, day 2 alone not found, two files returned.
C16_Witness ==
    /\ Ranged
    /\ ret.start_date = 1 /\ ret.end_date = 3
    /\ DayDownloads(1) /\ DayLink(2) = None /\ DayDownloads(3)
    /\ ret.outcome = Return(<<DayFile(1), DayFile(3)>>)

\* C17 (as claimed): a date-range batch never aborts on one day's failure:
\* when a located day's download fails (page fetch error, no audio found,
\* audio fetch error) the failure is caught, the other days are processed,
\* and the list returned holds the files of all the days that succeeded.
C17_BatchSurvivesDownloadFailure ==
    Ranged => ret.outcome = Return(FilesOfDays(ret.start_date, ret.end_date))

(***************************************************************************)
(* Playlist downloads.                                                     *)
(***************************************************************************)
\* The entries a finished download_playlist call had selected.
Selected == _filter_playlist_by_range(videos, options)

\* yt-dlp downloads the entry.
Succeeds(video) ==
    YtAnswer(web, VideoUrl(video)).answer \in {"ok", "format, fallback ok"}

\* The file name download_video returns for an entry yt-dlp downloads.
EntryFile(video) ==
    LET answer == YtAnswer(web, VideoUrl(video))
    IN  PyJoin(options.output_dir,
               IF answer.answer = "ok"
               THEN ReturnedName(options, answer.title)
               ELSE PrepareFilename(answer.title))

\* A request to download, the retry with the fallback format apart.
IsDownload(request) == request.kind = "download"

\* The call listed the playlist and its selection was usable.
Listed ==
    /\ ret # Idle
    /\ ret.op = "download_playlist"
    /\ web.playlist = "ok"
    /\ Selected.kind = "return"

\* C18: YouTube download_playlist asks for the selected entries one at a
\* time in ascending position order, a failed entry does not stop the
\* entries after it, and the list returned is the file names of the entries
\* that were downloaded, in that order, never longer than the selection.
C18_PlaylistSurvivesFailedEntries ==
    Listed =>
        LET selected == Selected.value
            good == SelectSeq(selected, Succeeds)
        IN  /\ \A i, j \in 1..Len(selected) :
                   i < j => PositionOf(selected[i]) < PositionOf(selected[j])
            /\ SelectSeq(fetched, IsDownload) =
                   [i \in 1..Len(selected) |->
                       DownloadRequest(VideoUrl(selected[i]))]
            /\ ret.outcome = Return([i \in 1..Len(good) |-> EntryFile(good[i])])
            /\ Len(ret.outcome.value) <= Len(selected)

\* Three entries were selected, the second failed, and the files of the
\* first and the third were returned.
C18_Witness ==
    /\ Listed
    /\ Len(Selected.value) = 3
    /\ Succeeds(Selected.value[1])
    /\ ~Succeeds(Selected.value[2])
    /\ Succeeds(Selected.value[3])
    /\ ret.outcome = Return(<<EntryFile(Selected.value[1]),
                              EntryFile(Selected.value[3])>>)

(***************************************************************************)
(* The exit status of the commands.                                        *)
(***************************************************************************)
\* A download or keysforkids command has run.
Commanded == ret # Idle /\ ret.op \in {"download", "keysforkids"}

\* The items the command produced: the files on disk, the output directory
\* apart.
Produced == disk \ {PyPath(DefaultOptions.output_dir)}

\* C19 (as claimed): a download or keysforkids command exits with a
\* non-zero status exactly when it produced no item at all; with at least
\* one item produced the status is zero, whatever became of the other items
\* of the batch.
C19_ExitStatusNonZeroIffNothingProduced ==
    Commanded => (ret.code # 0 <=> Produced = {})

(***************************************************************************)
(* The exceptions of download_video and get_video_info.                    *)
(***************************************************************************)
\* A download_video or get_video_info call of some downloader has ended.
Called == ret # Idle /\ ret.op \in {"download_video", "get_video_info"}

\* C20 (as claimed): whatever fails inside download_video or get_video_info
\* of the YouTube, CBN or Keys for Kids downloader, the exception that
\* reaches the caller is a DownloadError, never one of another type.
C20_FailuresLeaveAsDownloadError ==
    Called /\ ret.outcome.kind = "raise" => ret.outcome.error = "DownloadError"

(***************************************************************************)
(* Claims about the order and the number of the archive probes.            *)
(***************************************************************************)
\* The estimate of the last call, as the code computes it.
Estimate == EstimatedPage(web.today - ret.date, ret.max_pages)

\* The order stated for an estimate e: e, then for k = 1..5 page e-k if it
\* is at least 1, followed by page e+k if it is at most max_pages.
StatedOrder(e, max_pages) ==
    LET around == [i \in 1..(2 * 5) |->
                      IF i % 2 = 1 THEN [page |-> e - (i + 1) \div 2, up |-> FALSE]
                      ELSE [page |-> e + i \div 2, up |-> TRUE]]
        kept == SelectSeq(around, LAMBDA c : IF c.up THEN c.page <= max_pages
                                             ELSE c.page >= 1)
    IN  <<e>> \o [i \in 1..Len(kept) |-> kept[i].page]

\* C21: the archive pages are probed in exactly the stated order (the
\* estimate e, then e-k if >= 1 followed by e+k if <= max_pages, for
\* k = 1..5); probing stops at the first probed page that shows a link, that
\* link is what the call returns, and probing does not stop before the
\* order is exhausted while no page shows one.
C21_ProbesInStatedOrder ==
    Located =>
        LET order == StatedOrder(Estimate, ret.max_pages)
        IN  /\ \A i \in 1..Len(ProbedPages) :
                   /\ i <= Len(order) => ProbedPages[i] = order[i]
                   /\ ArchiveLink(ProbedPages[i]) # None =>
                          /\ i = Len(ProbedPages)
                          /\ ret.outcome = Return(ArchiveLink(ProbedPages[i]))
            /\ /\ ProbedPages # <<>>
               /\ \A i \in 1..Len(ProbedPages) :
                      ArchiveLink(ProbedPages[i]) = None
               => Len(ProbedPages) >= Len(order)

\* C21 witness: the estimate is at least 3, pages e+1 and e-2 both show a
\* link, and the call probed e, e-1, e+1 and returned the link of e+1.
C21_Witness ==
    /\ Located
    /\ Estimate >= 3
    /\ ProbedPages = <<Estimate, Estimate - 1, Estimate + 1>>
    /\ ArchiveLink(Estimate + 1) # None
    /\ ArchiveLink(Estimate - 2) # None
    /\ ret.outcome = Return(ArchiveLink(Estimate + 1))

\* C22 (as claimed): the estimated page, the first archive page probed, is
\* max(1, daysAgo div 10) clamped into 1..max_pages, daysAgo being the whole
\* days from the target date to today; for a target date of today, of the
\* future or fewer than 20 days old it is page 1.
C22_EstimateIsClampedTenth ==
    Located /\ ProbedPages # <<>> =>
        LET daysAgo == web.today - ret.date
            tenth == IF daysAgo \div 10 >= 1 THEN daysAgo \div 10 ELSE 1
        IN  /\ ret.max_pages >= 1 =>
                   ProbedPages[1] = IF tenth <= ret.max_pages THEN tenth
                                    ELSE ret.max_pages
            /\ daysAgo < 20 => ProbedPages[1] = 1

\* The same for the calls whose max_pages is at least 1.
C22_WithPositiveMaxPages ==
    Located /\ ret.max_pages >= 1 => C22_EstimateIsClampedTenth

\* The requests of the last call that are date queries.
DateQueries == SelectSeq(fetched, LAMBDA r : r.kind = "search")

\* The last call ended with page 1 probed as a last resort: one probe more
\* than the pages around the estimate, and that probe is of page 1.
LastResort(order) ==
    /\ Len(ProbedPages) = Len(order) + 1
    /\ ProbedPages[Len(ProbedPages)] = 1

\* C23: in one call of get_devotional_url_by_date no archive page is
\* fetched twice; the pages probed before a last resort are the estimate and
\* pages at most 5 away from it, at most 11 of them; page 1 is probed as a
\* last resort exactly when it is not one of these pages and none of them
\* shows a link for the date; so at most 12 archive pages are fetched, and
\* the date query is made once.
C23_ProbeBudget ==
    Located =>
        /\ Len(DateQueries) = 1
        /\ Len(ProbedPages) <= 12
        /\ \A i, j \in 1..Len(ProbedPages) :
               i # j => ProbedPages[i] # ProbedPages[j]
        /\ ProbedPages # <<>> =>
               LET order == StatedOrder(ProbedPages[1], ret.max_pages)
                   around == SubSeq(ProbedPages, 1,
                                    IF Len(ProbedPages) <= Len(order)
                                    THEN Len(ProbedPages) ELSE Len(order))
               IN  /\ Len(around) <= 11
                   /\ \A i \in 1..Len(around) :
                          /\ around[i] - ProbedPages[1] <= 5
                          /\ ProbedPages[1] - around[i] <= 5
                   /\ Len(ProbedPages) <= Len(order) + 1
                   /\ Len(ProbedPages) = Len(order) + 1 => LastResort(order)
                   /\ LastResort(order) <=>
                          /\ 1 \notin SeqRange(order)
                          /\ \A p \in SeqRange(order) : ArchiveLink(p) = None

\* A call that probes the 11 pages around its estimate, none of them page 1,
\* finds the date on none and fetches page 1 as its twelfth archive page.
C23_Witness ==
    /\ Located
    /\ Len(ProbedPages) = 12
    /\ ProbedPages[1] = 7
    /\ ProbedPages[12] = 1
    /\ \A i \in 1..11 : ProbedPages[i] # 1 /\ ArchiveLink(ProbedPages[i]) = None
    /\ Len(DateQueries) = 1

\* The dates the last call located, in the order of the calls: each call of
\* get_devotional_url_by_date starts with one date query.
LocatedDates == [i \in 1..Len(DateQueries) |-> DateQueries[i].at]

\* The days from..to in ascending order.
DaysOf(from, to) == [i \in 1..(IF to >= from THEN to - from + 1 ELSE 0) |-> from + i - 1]

\* C24 (as claimed): download_date_range(start, end) ends by returning a
\* list and has located each day of start..end exactly once, in ascending
\* order: end - start + 1 calls when start <= end, and no call and an empty
\* list when start > end; the files returned are in the order of their days.
C24_OneLocatePerDay ==
    Ranged =>
        /\ LocatedDates = DaysOf(ret.start_date, ret.end_date)
        /\ ret.start_date <= ret.end_date =>
               Len(LocatedDates) = ret.end_date - ret.start_date + 1
        /\ ret.outcome.kind = "return"
        /\ ret.start_date > ret.end_date =>
               LocatedDates = <<>> /\ ret.outcome = Return(<<>>)
        /\ \E days \in [1..Len(ret.outcome.value) -> Dates] :
               /\ \A i \in 1..Len(days) : DayDownloads(days[i])
                      /\ ret.outcome.value[i] = DayFile(days[i])
               /\ \A i, j \in 1..Len(days) : i < j => days[i] < days[j]

\* The same for the calls in which no located day's download fails.
C24_WhenNoDownloadFails ==
    /\ Ranged
    /\ \A day \in ret.start_date..ret.end_date :
           DayLink(day) = None \/ DayDownloads(day)
    => C24_OneLocatePerDay

(***************************************************************************)
(* Claims about the start/end window.                                      *)
(***************************************************************************)
\* The window applies: no expression is supplied, or it names no integer.
WindowMode == ~ExpressionMode

\* playlist_start with a start below 1 taken as 1.
ClampedStart == IF options.playlist_start < 1 THEN 1 ELSE options.playlist_start

\* playlist_end with a missing or zero end, or one above N, taken as N.
ClampedEnd ==
    IF options.playlist_end = None THEN Len(videos)
    ELSE IF options.playlist_end[1] = 0 THEN Len(videos)
    ELSE IF options.playlist_end[1] > Len(videos) THEN Len(videos)
    ELSE options.playlist_end[1]

\* The entries at positions from..to of the playlist, none when from > to.
EntriesAt(from, to) ==
    [i \in 1..(IF to >= from THEN to - from + 1 ELSE 0) |-> videos[from + i - 1]]

\* C25 (as claimed): in window mode the result is the entries at positions
\* max(1, playlist_start)..min(N, playlist_end or N), and it is empty when
\* the start is beyond N or the clamped start is not before the clamped end.
C25_WindowAsClaimed ==
    Filtered /\ WindowMode =>
        /\ ret.outcome = Return(EntriesAt(ClampedStart, ClampedEnd))
        /\ (options.playlist_start > Len(videos) \/ ClampedStart >= ClampedEnd)
               => ret.outcome = Return(<<>>)

\* C25 (amended): in window mode the result is the entries at positions
\* max(1, playlist_start)..min(N, playlist_end or N): a start below 1 gives
\* what start 1 gives, an end above N, missing or zero gives what end N
\* gives, and the result is empty, without error, exactly when the playlist
\* is empty, the start is beyond N or the clamped start is after the clamped
\* end; a clamped start equal to the clamped end gives that one entry.
C25_WindowClamped ==
    Filtered /\ WindowMode =>
        /\ ret.outcome = Return(EntriesAt(ClampedStart, ClampedEnd))
        /\ ret.outcome = Return(<<>>) <=>
               \/ videos = <<>>
               \/ options.playlist_start > Len(videos)
               \/ ClampedStart > ClampedEnd
        /\ (videos # <<>> /\ ClampedStart = ClampedEnd
              /\ ClampedStart <= Len(videos))
               => ret.outcome = Return(<<videos[ClampedStart]>>)
        /\ options.playlist_start < 1 =>
               ret.outcome = _filter_playlist_by_range(
                                 videos, [options EXCEPT !.playlist_start = 1])
        /\ (options.playlist_end = None \/ options.playlist_end = Some(0)
              \/ (options.playlist_end # None
                    /\ options.playlist_end[1] > Len(videos)))
               => ret.outcome = _filter_playlist_by_range(
                      videos,
                      [options EXCEPT !.playlist_end = Some(Len(videos))])

\* C25 witness: start -1 and end 0 over two entries returned both.
C25_Witness ==
    /\ Filtered
    /\ WindowMode
    /\ Len(videos) = 2
    /\ options.playlist_start = -1
    /\ options.playlist_end = Some(0)
    /\ ret.outcome = Return(<<videos[1], videos[2]>>)

\* C26: when playlist_items is supplied and none of its tokens is an integer
\* or a range (every token invalid, or the expression blank), the result of
\* _filter_playlist_by_range is that of the start/end window alone: the
\* entries at positions max(1, playlist_start)..min(N, playlist_end or N).
C26_UnusableExpressionFallsBack ==
    /\ Filtered
    /\ options.playlist_items # None
    /\ NamedBy(Expression) = {}
    => ret.outcome = Return(EntriesAt(ClampedStart, ClampedEnd))

\* C26 witness: "x,-" with the window 2..2 over two entries returned the
\* second entry.
C26_Witness ==
    /\ Filtered
    /\ options.playlist_items = Some(<<"x", ",", "-">>)
    /\ Len(videos) = 2
    /\ options.playlist_start = 2
    /\ options.playlist_end = Some(2)
    /\ ret.outcome = Return(<<videos[2]>>)

\* A blank expression falls back to the window in the same way.
C26_BlankFallsBack ==
    /\ Filtered
    /\ options.playlist_items = Some(<<" ", ",", " ">>)
    /\ Len(videos) = 2
    /\ options.playlist_start = 2
    /\ ret.outcome = Return(<<videos[2]>>)

\* C29: when the expression names at least one integer and every integer it
\* names is outside 1..N, the result is the empty list for every
\* playlist_start and playlist_end: the window is not fallen back to.
C29_AllOutOfRangeSelectsNothing ==
    /\ Filtered
    /\ ExpressionMode
    /\ NamedBy(Expression) \cap (1..Len(videos)) = {}
    => ret.outcome = Return(<<>>)

\* C29 witness: "0,3" over two entries returned nothing, where the window
\* on its own selects both.
C29_Witness ==
    /\ Filtered
    /\ options.playlist_items = Some(<<"0", ",", "3">>)
    /\ NamedBy(Expression) = {0, 3}
    /\ Len(videos) = 2
    /\ EntriesAt(ClampedStart, ClampedEnd) = videos
    /\ ret.outcome = Return(<<>>)

(***************************************************************************)
(* Claims about BaseDownloader.download.                                   *)
(***************************************************************************)
DownloadedUrl == ret.op = "BaseDownloader.download"

\* What the call that ended leaves: its outcome, the files, the requests.
Left == [outcome |-> ret.outcome, disk |-> disk, fetched |-> fetched]

\* The disk a downloader of the last call started from: the output
\* directory made by its constructor.
DiskAfterConstruct == Construct(ret.cls, options, {}).disk

\* download_playlist(url) alone, and [download_video(url)] alone.
PlaylistPath ==
    download_playlist(ret.cls, web, options, ret.url, videos,
                      DiskAfterConstruct, <<>>)
VideoPath == DownloadOne(ret.cls, web, options, ret.url, DiskAfterConstruct, <<>>)

\* C27: download(url) takes the path is_playlist(url) names, and only that
\* one: when is_playlist(url) is true its outcome, files and requests are
\* those of download_playlist(url) alone, otherwise those of
\* [download_video(url)] alone (a one-element list when it returns); in both
\* cases requests are made, so one of the two paths is taken.
C27_DownloadBranchesOnIsPlaylist ==
    DownloadedUrl =>
        /\ is_playlist(ret.cls, ret.url) => Left = PlaylistPath
        /\ ~is_playlist(ret.cls, ret.url) =>
               /\ Left = VideoPath
               /\ ret.outcome.kind = "return" => Len(ret.outcome.value) = 1
        /\ fetched # <<>>
        /\ ret.cls = "CBNDownloader" => ~is_playlist(ret.cls, ret.url)

\* C27 witness: a YouTube playlist URL went down the playlist path, whose
\* requests are not those of download_video on the same URL, and returned
\* two files.
C27_Witness ==
    /\ DownloadedUrl
    /\ ret.cls = "YouTubeDownloader"
    /\ ret.url = PlaylistUrl
    /\ ret.outcome.kind = "return"
    /\ Len(ret.outcome.value) = 2
    /\ fetched # VideoPath.fetched
    /\ fetched[1] = InfoRequest(PlaylistUrl)

\* A video URL went down the video path and returned a one-element list.
C27_VideoPathTaken ==
    /\ DownloadedUrl
    /\ ret.cls = "YouTubeDownloader"
    /\ ret.url = YouTubeUrl
    /\ ret.outcome.kind = "return"
    /\ Len(ret.outcome.value) = 1
    /\ fetched = <<DownloadRequest(YouTubeUrl)>>

\* CBNDownloader took the video path on a URL with "playlist" and "list=".
C27_CBNNeverPlaylist ==
    /\ DownloadedUrl
    /\ ret.cls = "CBNDownloader"
    /\ ret.url = CBNListUrl
    /\ fetched = VideoPath.fetched
    /\ fetched[1] = InfoRequest(CBNListUrl)

(***************************************************************************)
(* Claims about the order of resolution.                                   *)
(***************************************************************************)
\* The registered names in the order list_downloaders gives them.
NamesInOrder == list_downloaders(downloaders)

\* What a register or unregister step does to the order of the names: a
\* name registered again stays where it is, a name not registered goes to
\* the end, a name unregistered leaves and the others keep their order.
OrderStep ==
    /\ ret'.op = "register" =>
           list_downloaders(downloaders') =
               IF ret'.name \in SeqRange(NamesInOrder) THEN NamesInOrder
               ELSE Append(NamesInOrder, ret'.name)
    /\ ret'.op = "unregister" =>
           list_downloaders(downloaders') =
               SelectSeq(NamesInOrder, LAMBDA n : n # ret'.name)
    /\ ret'.op \notin {"register", "unregister"} =>
           list_downloaders(downloaders') = NamesInOrder

\* The handler a resolution returns is the first of NamesInOrder that
\* accepts the URL: no name before it accepts.
ResolvedInOrder ==
    Resolved /\ ret.outcome.kind = "return" =>
        \E i \in 1..Len(NamesInOrder) :
            /\ NamesInOrder[i] = ret.name
            /\ ret.outcome.value.cls = downloaders[i].cls
            /\ NamesInOrder[i] \in AcceptingNames
            /\ \A j \in 1..(i - 1) : NamesInOrder[j] \notin AcceptingNames

\* C28: resolution tries the names in the order of their first insertion:
\* registering a registered name again replaces its handler and keeps its
\* place (register A, register B, register A again: A is still tried
\* before B), and unregistering a name and registering it again puts it at
\* the end of the order.
C28_FirstInsertionOrder ==
    /\ []ResolvedInOrder
    /\ [][OrderStep]_vars
    /\ [][RegisterStep]_vars

\* C28 witness: of two names whose handlers accept the URL, the one at the
\* front was registered again after the other, and it is the one resolved.
C28_Witness ==
    /\ Resolved
    /\ Len(downloaders) = 2
    /\ regOrder = <<downloaders[2].name, downloaders[1].name>>
    /\ AcceptingNames = {downloaders[1].name, downloaders[2].name}
    /\ ret.outcome.kind = "return"
    /\ ret.name = downloaders[1].name

(***************************************************************************)
(* Claims about the registry after startup.                                *)
(***************************************************************************)
\* The constructors of the registered handlers accept the options of the
\* last resolution: the quality is not one _get_format_string fails on.
ConstructorsAccept ==
    \A i \in 1..Len(downloaders) :
        ~Construct(downloaders[i].cls, ret.options, {}).raised

\* After startup: the names registered are those of youtube, cbn whose module
\* was importable, in that order, each with its class, and a resolution of
\* the Keys for Kids URL has raised the no-handler DownloadError.
AfterBootstrap ==
    /\ ret.op = "_register_builtin_downloaders" => ret.outcome = Return(None)
    /\ NamesInOrder = SelectSeq(<<"youtube", "cbn">>,
                                LAMBDA n : n \in web.importable)
    /\ \A i \in 1..Len(downloaders) :
           downloaders[i].cls =
               IF downloaders[i].name = "youtube" THEN "YouTubeDownloader"
               ELSE "CBNDownloader"
    /\ (Resolved /\ ret.url = KeysForKidsUrl) =>
           ret.outcome = Raise("DownloadError")

\* C30 (as claimed): after the startup bootstrap the registered names are
\* exactly those of youtube, cbn whose import succeeded, in that order; a
\* failed import of one neither keeps the other from being registered nor
\* aborts startup; no other handler is registered, and resolving a
\* keysforkids.org URL fails with the no-handler error.
C30_BootstrapRegistersImportable == Started => AfterBootstrap

\* The same for the resolutions whose options every registered constructor
\* accepts.
C30_WhenConstructorsAccept ==
    Started /\ (Resolved => ConstructorsAccept) => AfterBootstrap
=============================================================================
